---- MODULE Spec2Model ----
(***************************************************************************)
(* Model of the caches of the choosealicense Alfred workflow.              *)
(*                                                                         *)
(*  - the per-item cache of process_license.js  (used-licenses.json, an    *)
(*    array of license records, freshness taken from the file's mtime),    *)
(*    with the placeholder substitution run applies to what it returns;    *)
(*  - the list cache of get_license_copy.js (licenses_cache.json, an       *)
(*    envelope {timestamp, licenses});                                     *)
(*  - the list cache of list_licenses.js (list-licenses.json, an array,    *)
(*    freshness taken from the file's mtime);                              *)
(*  - the text view of generate_text_view.js, which reads the per-item     *)
(*    cache and never fetches;                                             *)
(*  - the updater of the local license database (licenses.json);           *)
(*  - the per-item cache without expiry, run side by side with the         *)
(*    expiring one.                                                        *)
(*                                                                         *)
(* Every run of a script is one atomic action: the launcher starts a       *)
(* short-lived process per query.  The upstream answer of the one curl     *)
(* call a run may make is an input of the action.  SpecRace splits         *)
(* getLicense into its file accesses, to interleave two runs, and          *)
(* SpecSteps follows a run second by second while curl waits.              *)
(***************************************************************************)
EXTENDS Integers, Sequences, FiniteSets, TLC

\* ------------------------------------------------------------ constants
\* process_license.js: const CACHE_EXPIRY = 31536000 (one year, seconds)
CACHE_EXPIRY == 31536000
\* get_license_copy.js: const CACHE_EXPIRY = 86400 (24 hours, seconds)
LIST_CACHE_EXPIRY == 86400
\* list_licenses.js: const CACHE_EXPIRY = 31536000 (one year, seconds)
LICENSES_CACHE_EXPIRY == 31536000
\* process_license.js, get_license_copy.js: const CURL_TIMEOUT = 5 (seconds,
\* handed to curl as --max-time)
CURL_TIMEOUT == 5

\* ------------------------------------------------------------ bounds
MaxStore  == 2      \* longest used-licenses.json array explored
MaxTicks  == 3      \* clock advances explored
MaxSegments == 3    \* segments a generated license body is made of
MaxWait   == 6      \* seconds a curl call is followed for
MaxRuns   == 2      \* invocations followed step by step

\* ------------------------------------------------------------ license texts
\* A text is a sequence of pieces; a placeholder is a short sequence of
\* pieces, so that a text can hold it, hold part of it, or be given it by an
\* inserted value.  The patterns of replaceAuthor and replaceYear:
NameOfAuthorToken  == <<"<", "name of author", ">">>
AngleYearToken     == <<"<", "year", ">">>
CopyrightOwnerToken == <<"[", "name of copyright owner", "]">>
YyyyToken          == <<"[", "yyyy", "]">>
FullnameToken      == <<"[", "fullname", "]">>
YearToken          == <<"[", "year", "]">>
SamHocevarToken    == <<"Sam Hocevar ", "<", "sam@hocevar.net", ">">>
Token2004          == <<"2004">>

\* License bodies as the GitHub API delivers them, shortened to the lines
\* that hold placeholders.
MitText    == <<"MIT License Copyright (c) ">> \o YearToken \o <<" ">>
                  \o FullnameToken \o <<" Permission is hereby granted">>
GplText    == <<"Copyright (C) ">> \o AngleYearToken \o <<" ">>
                  \o NameOfAuthorToken \o <<" This program is free software">>
ApacheText == <<"Copyright ">> \o YyyyToken \o <<" ">> \o CopyrightOwnerToken
WtfplText  == <<"Version 2, December ">> \o Token2004 \o <<" Copyright (C) ">>
                  \o Token2004 \o <<" ">> \o SamHocevarToken
MplText    == <<"Mozilla Public License Version 2.0">>

Keys   == {"mit", "isc"}
\* Two payloads per key are enough to tell a refetched record from the one
\* stored before.
Bodies == {MitText, MitText \o <<" (revised)">>}

\* ------------------------------------------------------------ JSON values
\* A JSON value as far as the scripts look at it: a license record (an object
\* with a truthy key field), an object without a key field (x.key is
\* undefined), or null (x.key throws a TypeError).
License(k, b) == [shape |-> "license", key |-> k, body |-> b]
NoKeyObject   == [shape |-> "nokey", key |-> "", body |-> <<>>]
JsNull        == [shape |-> "null", key |-> "", body |-> <<>>]

Licenses == {License(k, b) : k \in Keys, b \in Bodies}

\* What used-licenses.json can hold: nothing (no file), bytes that are not
\* JSON, a JSON value that is not an array, or an array.
AbsentFile      == [kind |-> "absent", items |-> <<>>]
InvalidJsonFile == [kind |-> "invalid", items |-> <<>>]
NonArrayFile    == [kind |-> "nonarray", items |-> <<>>]
ArrayFile(arr)  == [kind |-> "array", items |-> arr]

VARIABLES
    now,          \* the wall clock, seconds
    ticks,        \* number of clock advances so far (bounds the exploration)
    cacheFile,    \* content of used-licenses.json
    cacheMtime,   \* NSFileModificationDate of used-licenses.json
    writtenAt,    \* history: for each array element, the time it was written
    writable,     \* whether writeToFile succeeds
    last,         \* the most recent run of process_license.js: inputs, pre-state, outcome
    listFile,     \* content of licenses_cache.json
    lastList,     \* the most recent run of get_license_copy.js
    doc,          \* a license text being personalized: inputs and results
    licensesFile, \* content of list-licenses.json (list_licenses.js)
    licensesMtime, \* NSFileModificationDate of list-licenses.json
    lastLicenses, \* the most recent run of list_licenses.js
    race,         \* two getLicense calls at once: where each stands
    proc,         \* an invocation followed step by step: where it stands
    lastView,     \* the most recent run of generate_text_view.js
    licensesJson, \* content of licenses.json, the local license database
    lastUpdate,   \* the most recent run of updateLicenses
    plainFile,    \* used-licenses.json as the non-expiring variant keeps it
    lastBoth      \* the most recent getLicense call made to both variants

vars == <<now, ticks, cacheFile, cacheMtime, writtenAt, writable, last,
          listFile, lastList, doc, licensesFile, licensesMtime, lastLicenses,
          race, proc, lastView, licensesJson, lastUpdate, plainFile, lastBoth>>

\* The variables of the parts an action is not about.
cacheVars == <<now, ticks, cacheFile, cacheMtime, writtenAt, writable, last,
               listFile, lastList, licensesFile, licensesMtime, lastLicenses>>
substVars == <<doc>>
licVars == <<licensesFile, licensesMtime, lastLicenses>>
raceVars == <<race>>
stepVars == <<proc>>
viewVars == <<lastView>>
updateVars == <<licensesJson, lastUpdate>>
twinVars == <<plainFile, lastBoth>>

\* ------------------------------------------------------------ process_license.js
\* ---- placeholder substitution
\* The case labels of the two switch statements.
GplFamily == {"agpl-3.0", "gpl-2.0", "gpl-3.0", "lgpl-2.1"}
MitFamily == {"bsd-2-clause", "bsd-3-clause", "mit", "bsd-4-clause", "isc"}

\* A replacement string as String.prototype.replace inserts it: $& stands
\* for the matched text and $$ for a dollar sign.
RECURSIVE Expand(_, _)
Expand(replacement, match) ==
    IF replacement = <<>> THEN <<>>
    ELSE (CASE Head(replacement) = "$&" -> match
            [] Head(replacement) = "$$" -> <<"$">>
            [] OTHER -> <<Head(replacement)>>)
         \o Expand(Tail(replacement), match)

\* replace without the g flag: only the first match is replaced.
RECURSIVE replace_FirstOnly(_, _, _)
replace_FirstOnly(text, pattern, replacement) ==
    IF Len(text) < Len(pattern) THEN text
    ELSE IF SubSeq(text, 1, Len(pattern)) = pattern
    THEN Expand(replacement, pattern) \o SubSeq(text, Len(pattern) + 1, Len(text))
    ELSE <<Head(text)>> \o replace_FirstOnly(Tail(text), pattern, replacement)

\* text.replace(/pattern/g, replacement): the matches are found left to
\* right in the original text and do not overlap; what is inserted is not
\* searched again.
RECURSIVE replace(_, _, _)
replace(text, pattern, replacement) ==
    IF Len(text) < Len(pattern) THEN text
    ELSE IF SubSeq(text, 1, Len(pattern)) = pattern
    THEN Expand(replacement, pattern)
         \o replace(SubSeq(text, Len(pattern) + 1, Len(text)), pattern, replacement)
    ELSE <<Head(text)>> \o replace(Tail(text), pattern, replacement)

\* The callback of the wtfpl case left out: text.replace(/2004/g, year), every
\* match replaced.
replaceSecond_EveryMatch(text, pattern, year, count) ==
    replace(text, pattern, year)

\* text.replace(/pattern/g, (match) => (++count === 2 ? year : match)) with
\* count matches seen so far: only the second match is replaced.
RECURSIVE replaceSecond(_, _, _, _)
replaceSecond(text, pattern, year, count) ==
    IF Len(text) < Len(pattern) THEN text
    ELSE IF SubSeq(text, 1, Len(pattern)) = pattern
    THEN (IF count + 1 = 2 THEN year ELSE pattern)
         \o replaceSecond(SubSeq(text, Len(pattern) + 1, Len(text)),
                          pattern, year, count + 1)
    ELSE <<Head(text)>> \o replaceSecond(Tail(text), pattern, year, count)

\* No author: the workflow variable is not set or is empty (both falsy).
NoAuthor == <<>>

\* The workflow variable `author` as the user configured it.
ConfiguredAuthor == <<"Ada Lovelace">>

\* replaceAuthor with the default label moved up next to "isc": a key no
\* case names is treated like the MIT family.
replaceAuthor_DefaultFullname(author, key, text) ==
    LET authorName == IF author = NoAuthor THEN FullnameToken ELSE author
    IN CASE key \in GplFamily -> replace(text, NameOfAuthorToken, authorName)
         [] key = "apache-2.0" -> replace(text, CopyrightOwnerToken, authorName)
         [] key = "wtfpl" -> replace(text, SamHocevarToken, authorName)
         [] key \in {"bsl-1.0", "cc0-1.0", "epl-2.0", "mpl-2.0", "unlicense",
                     "cc-by-4.0", "lgpl-3.0"} -> text
         [] OTHER -> replace(text, FullnameToken, authorName)

\* replaceAuthor(author, key, text)
replaceAuthor(author, key, text) ==
    LET authorName == IF author = NoAuthor THEN FullnameToken ELSE author
    IN CASE key \in GplFamily -> replace(text, NameOfAuthorToken, authorName)
         [] key = "apache-2.0" -> replace(text, CopyrightOwnerToken, authorName)
         [] key \in MitFamily -> replace(text, FullnameToken, authorName)
         [] key = "wtfpl" -> replace(text, SamHocevarToken, authorName)
         [] OTHER -> text

\* replaceYear(year, key, text)
replaceYear(year, key, text) ==
    CASE key \in GplFamily -> replace(text, AngleYearToken, year)
      [] key = "apache-2.0" -> replace(text, YyyyToken, year)
      [] key \in MitFamily -> replace(text, YearToken, year)
      [] key = "wtfpl" -> replaceSecond(text, Token2004, year, 0)
      [] OTHER -> text

\* processLicense(license, author), currentYear being the calendar year of
\* the clock as a string: "" for no license or an empty body.
processLicense(license, author, currentYear) ==
    IF license.shape # "license" \/ license.body = <<>>
    THEN <<>>
    ELSE replaceYear(currentYear, license.key,
                     replaceAuthor(author, license.key, license.body))

\* replaceAuthor of the non-expiring variant of the script: no fallback, the
\* author is handed to replace as it is, and replace inserts the string
\* "undefined" for a variable that is not set.
replaceAuthorNonExpiring(author, key, text) ==
    LET inserted == IF author = NoAuthor THEN <<"undefined">> ELSE author
    IN CASE key \in GplFamily -> replace(text, NameOfAuthorToken, inserted)
         [] key = "apache-2.0" -> replace(text, CopyrightOwnerToken, inserted)
         [] key \in MitFamily -> replace(text, FullnameToken, inserted)
         [] key = "wtfpl" -> replace(text, SamHocevarToken, inserted)
         [] OTHER -> text

\* processLicense of the non-expiring variant.
processLicenseNonExpiring(license, author, currentYear) ==
    IF license.shape # "license" \/ license.body = <<>>
    THEN <<>>
    ELSE replaceYear(currentYear, license.key,
                     replaceAuthorNonExpiring(author, license.key, license.body))

\* isCacheFresh with the comparison turned round (NSOrderedDescending).
isCacheFresh_Descending(file, mtime, clock) ==
    /\ file.kind # "absent"
    /\ clock > mtime + CACHE_EXPIRY

\* isCacheFresh: the file exists and now is before mtime + CACHE_EXPIRY
\* (NSOrderedAscending is strict).
isCacheFresh(file, mtime, clock) ==
    /\ file.kind # "absent"
    /\ clock < mtime + CACHE_EXPIRY

\* readCache: null when the file cannot be read, is not JSON or is not an
\* array; the parsed array otherwise.
readCache(file) ==
    IF file.kind = "array"
    THEN [isNull |-> FALSE, arr |-> file.items]
    ELSE [isNull |-> TRUE, arr |-> <<>>]

\* `let cache = []` in place of `readCache(cacheFile) || []`: what the file
\* holds is not looked at.
OrEmpty_AlwaysEmpty(r) == <<>>

\* readCache(cacheFile) || []
OrEmpty(r) == IF r.isNull THEN <<>> ELSE r.arr

\* Evaluating `license.key` on an array element throws when the element is
\* null; an object without the field gives undefined, which equals no key.
Throws(e) == e.shape = "null"
KeyIs(e, k) == e.shape = "license" /\ e.key = k

\* find looking at the first element only (cache[0]).
find_FirstElement(cache, licenseKey) ==
    IF cache = <<>> THEN [threw |-> FALSE, found |-> FALSE, value |-> JsNull]
    ELSE IF Throws(cache[1]) THEN [threw |-> TRUE, found |-> FALSE, value |-> JsNull]
    ELSE IF KeyIs(cache[1], licenseKey)
    THEN [threw |-> FALSE, found |-> TRUE, value |-> cache[1]]
    ELSE [threw |-> FALSE, found |-> FALSE, value |-> JsNull]

\* cache.find(license => license.key === licenseKey): elements are visited
\* in order up to the first match; visiting null throws.
find(cache, licenseKey) ==
    LET hits == {i \in 1..Len(cache) : Throws(cache[i]) \/ KeyIs(cache[i], licenseKey)}
        first == CHOOSE i \in hits : \A j \in hits : i <= j
    IN IF hits = {} THEN [threw |-> FALSE, found |-> FALSE, value |-> JsNull]
       ELSE IF Throws(cache[first]) THEN [threw |-> TRUE, found |-> FALSE, value |-> JsNull]
       ELSE [threw |-> FALSE, found |-> TRUE, value |-> cache[first]]

\* Indexes kept by cache.filter(l => l.key !== licenseKey), in order.
KeptIndexes(cache, licenseKey) ==
    SelectSeq([i \in 1..Len(cache) |-> i], LAMBDA i : ~KeyIs(cache[i], licenseKey))

\* filter with the predicate inverted (l.key === licenseKey): only the old
\* versions of the requested license are kept.
filter_KeepsRequested(cache, licenseKey) ==
    IF \E i \in 1..Len(cache) : Throws(cache[i])
    THEN [threw |-> TRUE, arr |-> <<>>]
    ELSE [threw |-> FALSE, arr |-> SelectSeq(cache, LAMBDA l : KeyIs(l, licenseKey))]

\* filter left out, as in the non-expiring variant: the cache is pushed to
\* as it is.
filter_KeepsAll(cache, licenseKey) ==
    IF \E i \in 1..Len(cache) : Throws(cache[i])
    THEN [threw |-> TRUE, arr |-> <<>>]
    ELSE [threw |-> FALSE, arr |-> cache]

\* cache.filter(l => l.key !== licenseKey): every element is visited, so a
\* null element anywhere throws.
filter(cache, licenseKey) ==
    IF \E i \in 1..Len(cache) : Throws(cache[i])
    THEN [threw |-> TRUE, arr |-> <<>>]
    ELSE [threw |-> FALSE,
          arr |-> [j \in 1..Len(KeptIndexes(cache, licenseKey)) |->
                      cache[KeptIndexes(cache, licenseKey)[j]]]]

\* writeToFile with atomically false: the file is written in place, and a
\* write that fails leaves the beginning of the new text.
writeCache_NotAtomic(file, cacheData, ok) ==
    IF ok THEN ArrayFile(cacheData) ELSE InvalidJsonFile

\* writeCache(cacheFile, cacheData): writeToFile atomically, the file is the
\* new array or, when the write fails (ok false), what it was; nothing is
\* thrown or reported.
writeCache(file, cacheData, ok) ==
    IF ok THEN ArrayFile(cacheData) ELSE file

\* FetchAndStore without the `license && license.key` test around the
\* write: a failed fetch still rewrites the cache file.
FetchAndStore_WritesOnFailure(licenseKey, file, fetched) ==
    IF fetched.shape = "license"
    THEN [threw |-> FALSE, ret |-> fetched, fetches |-> 1, reads |-> 1, write |-> TRUE,
          data |-> Append(SelectSeq(OrEmpty(readCache(file)),
                                    LAMBDA l : ~KeyIs(l, licenseKey)), fetched)]
    ELSE [threw |-> FALSE, ret |-> JsNull, fetches |-> 1, reads |-> 1, write |-> TRUE,
          data |-> OrEmpty(readCache(file))]

\* FetchAndStore testing `license` alone, not `license.key`: any parsed
\* object is stored and returned.
FetchAndStore_NoKeyTest(licenseKey, file, fetched) ==
    IF fetched.shape # "null"
    THEN [threw |-> FALSE, ret |-> fetched, fetches |-> 1, reads |-> 1, write |-> TRUE,
          data |-> Append(SelectSeq(OrEmpty(readCache(file)),
                                    LAMBDA l : ~KeyIs(l, licenseKey)), fetched)]
    ELSE [threw |-> FALSE, ret |-> JsNull, fetches |-> 1, reads |-> 0,
          write |-> FALSE, data |-> <<>>]

\* The part of getLicense after the cache lookup: fetchLicense has answered
\* `fetched` (JsNull: no data or unparsable data).
FetchAndStore(licenseKey, file, fetched) ==
    IF fetched.shape = "license"
    THEN LET kept == filter(OrEmpty(readCache(file)), licenseKey)
         IN IF kept.threw
            THEN [threw |-> TRUE, ret |-> JsNull, fetches |-> 1, reads |-> 1,
                  write |-> FALSE, data |-> <<>>]
            ELSE [threw |-> FALSE, ret |-> fetched, fetches |-> 1, reads |-> 1,
                  write |-> TRUE, data |-> Append(kept.arr, fetched)]
    ELSE [threw |-> FALSE, ret |-> JsNull, fetches |-> 1, reads |-> 0,
          write |-> FALSE, data |-> <<>>]

\* getLicense(licenseKey, cacheFile, fileManager): what it returns (ret,
\* JsNull for null), whether a TypeError escapes, how often it fetches and
\* what it hands to writeCache.
getLicense(licenseKey, file, mtime, clock, fetched) ==
    LET cached == find(OrEmpty(readCache(file)), licenseKey)
    IN IF isCacheFresh(file, mtime, clock) /\ cached.threw
       THEN [threw |-> TRUE, ret |-> JsNull, fetches |-> 0, reads |-> 1,
             write |-> FALSE, data |-> <<>>]
       ELSE IF isCacheFresh(file, mtime, clock) /\ cached.found
       THEN [threw |-> FALSE, ret |-> cached.value, fetches |-> 0, reads |-> 1,
             write |-> FALSE, data |-> <<>>]
       ELSE LET f == FetchAndStore(licenseKey, file, fetched)
            IN [f EXCEPT !.reads = @ + (IF isCacheFresh(file, mtime, clock)
                                        THEN 1 ELSE 0)]

\* new Date().getFullYear().toString() for a clock in seconds since 1970
\* (1972 is a leap year).
getFullYear(clock) ==
    CASE clock < 31536000 -> <<"1970">>
      [] clock < 63072000 -> <<"1971">>
      [] clock < 94694400 -> <<"1972">>
      [] clock < 126230400 -> <<"1973">>
      [] OTHER -> <<"1974">>

\* run without the `if (!license)` test: a null license goes on to
\* processLicense, which answers the empty body.
run_NoNullCheck(arg, author, file, mtime, clock, fetched) ==
    LET g == getLicense(arg, file, mtime, clock, fetched)
    IN IF arg = ""
       THEN [kind |-> "error_no_key", key |-> arg, license |-> JsNull, text |-> <<>>,
             fetches |-> 0, reads |-> 0, mkdir |-> FALSE,
             write |-> FALSE, data |-> <<>>]
       ELSE IF g.threw
       THEN [kind |-> "exception", key |-> arg, license |-> JsNull, text |-> <<>>,
             fetches |-> g.fetches, reads |-> g.reads, mkdir |-> TRUE,
             write |-> FALSE, data |-> <<>>]
       ELSE [kind |-> "body", key |-> arg, license |-> g.ret,
             text |-> processLicense(g.ret, author, getFullYear(clock)),
             fetches |-> g.fetches, reads |-> g.reads, mkdir |-> TRUE,
             write |-> g.write, data |-> g.data]

\* run without the `if (!licenseKey)` test: an empty key goes on to
\* createDirectory and getLicense like any other.
run_NoKeyCheck(arg, author, file, mtime, clock, fetched) ==
    LET g == getLicense(arg, file, mtime, clock, fetched)
    IN IF g.threw
       THEN [kind |-> "exception", key |-> arg, license |-> JsNull, text |-> <<>>,
             fetches |-> g.fetches, reads |-> g.reads, mkdir |-> TRUE,
             write |-> FALSE, data |-> <<>>]
       ELSE IF g.ret.shape # "license"
       THEN [kind |-> "error_failed_to_fetch", key |-> arg, license |-> JsNull, text |-> <<>>,
             fetches |-> g.fetches, reads |-> g.reads, mkdir |-> TRUE,
             write |-> g.write, data |-> g.data]
       ELSE [kind |-> "body", key |-> arg, license |-> g.ret,
             text |-> processLicense(g.ret, author, getFullYear(clock)),
             fetches |-> g.fetches, reads |-> g.reads, mkdir |-> TRUE,
             write |-> g.write, data |-> g.data]

\* run keeping what processLicense returned in the record it has just
\* cached: the store is written with the personalized body.
run_StoresPersonalized(arg, author, file, mtime, clock, fetched) ==
    LET g == getLicense(arg, file, mtime, clock, fetched)
        text == processLicense(g.ret, author, getFullYear(clock))
    IN IF arg = ""
       THEN [kind |-> "error_no_key", key |-> arg, license |-> JsNull, text |-> <<>>,
             fetches |-> 0, reads |-> 0, mkdir |-> FALSE,
             write |-> FALSE, data |-> <<>>]
       ELSE IF g.threw
       THEN [kind |-> "exception", key |-> arg, license |-> JsNull, text |-> <<>>,
             fetches |-> g.fetches, reads |-> g.reads, mkdir |-> TRUE,
             write |-> FALSE, data |-> <<>>]
       ELSE IF g.ret.shape # "license"
       THEN [kind |-> "error_failed_to_fetch", key |-> arg, license |-> JsNull,
             text |-> <<>>,
             fetches |-> g.fetches, reads |-> g.reads, mkdir |-> TRUE,
             write |-> g.write, data |-> g.data]
       ELSE [kind |-> "body", key |-> arg, license |-> g.ret, text |-> text,
             fetches |-> g.fetches, reads |-> g.reads, mkdir |-> TRUE,
             write |-> g.write,
             data |-> IF g.write
                      THEN [g.data EXCEPT ![Len(g.data)].body = text]
                      ELSE g.data]

\* run(argv) of process_license.js.  arg is argv[0] after trim(); "" stands
\* for an absent, empty or all-whitespace argument.
run(arg, author, file, mtime, clock, fetched) ==
    LET g == getLicense(arg, file, mtime, clock, fetched)
    IN IF arg = ""
       THEN [kind |-> "error_no_key", key |-> arg, license |-> JsNull, text |-> <<>>,
             fetches |-> 0, reads |-> 0, mkdir |-> FALSE,
             write |-> FALSE, data |-> <<>>]
       ELSE IF g.threw
       THEN [kind |-> "exception", key |-> arg, license |-> JsNull, text |-> <<>>,
             fetches |-> g.fetches, reads |-> g.reads, mkdir |-> TRUE,
             write |-> FALSE, data |-> <<>>]
       ELSE IF g.ret.shape # "license"
       THEN [kind |-> "error_failed_to_fetch", key |-> arg, license |-> JsNull, text |-> <<>>,
             fetches |-> g.fetches, reads |-> g.reads, mkdir |-> TRUE,
             write |-> g.write, data |-> g.data]
       ELSE [kind |-> "body", key |-> arg, license |-> g.ret,
             text |-> processLicense(g.ret, author, getFullYear(clock)),
             fetches |-> g.fetches, reads |-> g.reads, mkdir |-> TRUE,
             write |-> g.write, data |-> g.data]

\* History of write times after writeCache(data): kept elements keep theirs,
\* the pushed record gets the current time.
WrittenAtAfter(file, ats, licenseKey, clock) ==
    LET idx == KeptIndexes(OrEmpty(readCache(file)), licenseKey)
    IN Append([j \in 1..Len(idx) |-> ats[idx[j]]], clock)

NoInvocation ==
    [op |-> "none", arg |-> "", author |-> NoAuthor, fetched |-> JsNull, file |-> AbsentFile,
     mtime |-> 0, ats |-> <<>>, time |-> 0, writable |-> TRUE,
     out |-> [kind |-> "none", key |-> "", license |-> JsNull, text |-> <<>>,
              fetches |-> 0, reads |-> 0, mkdir |-> FALSE, write |-> FALSE, data |-> <<>>]]

\* ------------------------------------------------------------ get_license_copy.js
\* Strings the search looks into are sequences of characters.
Lower(c) ==
    CASE c = "M" -> "m"
      [] c = "I" -> "i"
      [] c = "T" -> "t"
      [] c = "S" -> "s"
      [] c = "C" -> "c"
      [] c = "O" -> "o"
      [] c = "H" -> "h"
      [] c = "E" -> "e"
      [] c = "R" -> "r"
      [] c = "N" -> "n"
      [] c = "A" -> "a"
      [] OTHER -> c

\* String.prototype.toLowerCase
toLowerCase(str) == [i \in 1..Len(str) |-> Lower(str[i])]

\* String.prototype.includes: sub occurs in str (the empty string always).
includes(str, sub) ==
    \E i \in 0..(Len(str) - Len(sub)) :
        \A j \in 1..Len(sub) : str[i + j] = sub[j]

\* Entries of the GitHub license list as far as the list scripts read them.
MitEntry == [key |-> <<"m", "i", "t">>, name |-> <<"M", "I", "T">>,
             spdx_id |-> <<"M", "I", "T">>]
IscEntry == [key |-> <<"i", "s", "c">>, name |-> <<"I", "S", "C">>,
             spdx_id |-> <<"I", "S", "C">>]

\* The entry GitHub uses for a license it has no SPDX identifier for: the
\* spdx_id is not the key in capitals.
OtherEntry == [key |-> <<"o", "t", "h", "e", "r">>,
               name |-> <<"O", "t", "h", "e", "r">>,
               spdx_id |-> <<"N", "O", "A", "S", "S", "E", "R", "T", "I", "O", "N">>]

\* What fetchLicenses can return: null (no data, unparsable data), a parsed
\* value that is not an array (an API error object), or the parsed array.
ListNull         == [shape |-> "null", arr |-> <<>>]
ListNonArray     == [shape |-> "other", arr |-> <<>>]
ListArray(a)     == [shape |-> "array", arr |-> a]
ListUndefined    == [shape |-> "undefined", arr |-> <<>>]

\* What licenses_cache.json can hold.  For an object, licenses is the value
\* of its licenses field (undefined, an array, or another truthy value) and
\* timestamp the value of its timestamp field, 0 when there is none.
NoListFile      == [kind |-> "absent", licenses |-> ListUndefined, timestamp |-> 0]
InvalidListFile == [kind |-> "invalid", licenses |-> ListUndefined, timestamp |-> 0]
NullListFile    == [kind |-> "null", licenses |-> ListUndefined, timestamp |-> 0]
ScalarListFile  == [kind |-> "scalar", licenses |-> ListUndefined, timestamp |-> 0]
Envelope(l, t)  == [kind |-> "object", licenses |-> l, timestamp |-> t]

\* makeItems(licenses, query): the licenses whose name or key contains the
\* query, both lower-cased, in list order; each becomes an item with uid,
\* arg = key and title = name.  (The subtitle is presentation only.)
makeItems(licenses, query) ==
    LET queryLower == toLowerCase(query)
        keep(license) ==
            \/ query = <<>>
            \/ includes(toLowerCase(license.name), queryLower)
            \/ includes(toLowerCase(license.key), queryLower)
        kept == SelectSeq(licenses, keep)
    IN [i \in 1..Len(kept) |-> [uid |-> kept[i].key, title |-> kept[i].name]]

\* The end of run: the items, or the "No licenses found" item.
ListResult(licenses, query, fetches, write) ==
    IF licenses.shape # "array"
    THEN [kind |-> "exception", items |-> <<>>, fetches |-> fetches,
          write |-> FALSE, licenses |-> <<>>]
    ELSE IF makeItems(licenses.arr, query) = <<>>
    THEN [kind |-> "no_licenses_found", items |-> <<>>, fetches |-> fetches,
          write |-> write, licenses |-> licenses.arr]
    ELSE [kind |-> "items", items |-> makeItems(licenses.arr, query),
          fetches |-> fetches, write |-> write, licenses |-> licenses.arr]

\* run of get_license_copy.js without the "try to use stale cache" branch: a
\* failed fetch always ends in the error item.
listRun_NoStaleFallback(query, file, currentTime, freshLicenses) ==
    IF file.kind = "null"
    THEN [kind |-> "exception", items |-> <<>>, fetches |-> 0,
          write |-> FALSE, licenses |-> <<>>]
    ELSE IF /\ file.licenses.shape # "undefined"
            /\ file.timestamp # 0
            /\ currentTime - file.timestamp < LIST_CACHE_EXPIRY
    THEN ListResult(file.licenses, query, 0, FALSE)
    ELSE IF freshLicenses.shape # "array"
    THEN [kind |-> "error_fetching_licenses", items |-> <<>>,
          fetches |-> 1, write |-> FALSE, licenses |-> <<>>]
    ELSE ListResult(freshLicenses, query, 1, TRUE)

\* run of get_license_copy.js comparing with <= : a list exactly
\* LIST_CACHE_EXPIRY seconds old is still served.
listRun_AgeInclusive(query, file, currentTime, freshLicenses) ==
    IF file.kind = "null"
    THEN [kind |-> "exception", items |-> <<>>, fetches |-> 0,
          write |-> FALSE, licenses |-> <<>>]
    ELSE IF /\ file.licenses.shape # "undefined"
            /\ file.timestamp # 0
            /\ currentTime - file.timestamp <= LIST_CACHE_EXPIRY
    THEN ListResult(file.licenses, query, 0, FALSE)
    ELSE IF freshLicenses.shape # "array"
    THEN IF file.licenses.shape = "array"
         THEN ListResult(file.licenses, query, 1, FALSE)
         ELSE [kind |-> "error_fetching_licenses", items |-> <<>>,
               fetches |-> 1, write |-> FALSE, licenses |-> <<>>]
    ELSE ListResult(freshLicenses, query, 1, TRUE)

\* run(argv) of get_license_copy.js: JSON.parse failures leave cache = {};
\* a parsed null makes `cache.licenses` throw; a truthy licenses field that
\* is not an array makes licenses.filter throw in makeItems.
listRun(query, file, currentTime, freshLicenses) ==
    IF file.kind = "null"
    THEN [kind |-> "exception", items |-> <<>>, fetches |-> 0,
          write |-> FALSE, licenses |-> <<>>]
    ELSE IF /\ file.licenses.shape # "undefined"
            /\ file.timestamp # 0
            /\ currentTime - file.timestamp < LIST_CACHE_EXPIRY
    THEN ListResult(file.licenses, query, 0, FALSE)
    ELSE IF freshLicenses.shape # "array"
    THEN IF file.licenses.shape = "array"
         THEN ListResult(file.licenses, query, 1, FALSE)
         ELSE [kind |-> "error_fetching_licenses", items |-> <<>>,
               fetches |-> 1, write |-> FALSE, licenses |-> <<>>]
    ELSE ListResult(freshLicenses, query, 1, TRUE)

NoListInvocation ==
    [op |-> "none", query |-> <<>>, fetched |-> ListNull, file |-> NoListFile,
     time |-> 0,
     out |-> [kind |-> "none", items |-> <<>>, fetches |-> 0, write |-> FALSE,
              licenses |-> <<>>]]

\* ------------------------------------------------------------ list_licenses.js
\* The list cache of list_licenses.js is a file holding the array of
\* licenses, with the file's mtime as its age; isCacheFresh and readCache
\* are the functions of process_license.js again, under the same names.
\* getLicenses(cacheFile, fileManager): the cached array when the file is
\* fresh and holds an array; else what fetchLicenses returned, written to
\* the file when it is an array.
getLicenses(file, mtime, clock, fetched) ==
    IF /\ file.kind # "absent"
       /\ clock < mtime + LICENSES_CACHE_EXPIRY
       /\ ~readCache(file).isNull
    THEN [ret |-> ListArray(readCache(file).arr), fetches |-> 0, write |-> FALSE]
    ELSE [ret |-> fetched, fetches |-> 1, write |-> fetched.shape = "array"]

\* makeItems(licenses) of list_licenses.js: one item per license, none left
\* out (the launcher does the filtering).
makeAllItems(licenses) ==
    [i \in 1..Len(licenses) |-> [uid |-> licenses[i].key, title |-> licenses[i].name]]

\* run(argv) of list_licenses.js: the 'Error fetching licenses' item when
\* getLicenses returned null or no array, else the items.
licensesRun(file, mtime, clock, fetched) ==
    LET g == getLicenses(file, mtime, clock, fetched)
    IN IF g.ret.shape # "array"
       THEN [kind |-> "error_fetching_licenses", items |-> <<>>,
             licenses |-> <<>>, fetches |-> g.fetches, write |-> g.write]
       ELSE [kind |-> "items", items |-> makeAllItems(g.ret.arr),
             licenses |-> g.ret.arr, fetches |-> g.fetches, write |-> g.write]

NoLicensesInvocation ==
    [op |-> "none", fetched |-> ListNull, file |-> AbsentFile, mtime |-> 0,
     time |-> 0,
     out |-> [kind |-> "none", items |-> <<>>, licenses |-> <<>>,
              fetches |-> 0, write |-> FALSE]]

\* ------------------------------------------------------------ generate_text_view.js
\* getLicense(licenseKey, cacheFile) of generate_text_view.js: the record of
\* the key in used-licenses.json, whatever the file's age; no API fallback.
viewGetLicense(licenseKey, file) == find(OrEmpty(readCache(file)), licenseKey)

\* run(argv) of generate_text_view.js, argv[0] being the body process_license.js
\* returned and licenseKey the workflow variable key_license ("": not set).
viewRun(body, licenseKey, file) ==
    IF body = <<>> THEN "error_no_body"
    ELSE IF licenseKey = "" THEN "error_no_key"
    ELSE IF viewGetLicense(licenseKey, file).threw THEN "exception"
    ELSE IF ~viewGetLicense(licenseKey, file).found THEN "error_not_found_in_cache"
    ELSE "markdown"

NoViewInvocation ==
    [op |-> "none", key |-> "", file |-> AbsentFile, mtime |-> 0, kind |-> "none"]

\* ------------------------------------------------------------ updateLicenses (Node)
\* What fetchFromGitHub gives for /licenses/<spdx_id>: the promise is
\* rejected (request error, unparsable answer, API error message) or
\* resolved with the details, of which the description is kept here.
Rejected == [ok |-> FALSE, description |-> ""]
Resolved(d) == [ok |-> TRUE, description |-> d]

\* What licenses.json can hold: nothing, no JSON, or {last_updated, count,
\* licenses}.
NoLicensesJson == [kind |-> "absent", last_updated |-> 0, count |-> 0, licenses |-> <<>>]
InvalidLicensesJson == [kind |-> "invalid", last_updated |-> 0, count |-> 0, licenses |-> <<>>]

\* The record updateLicenses builds for a license of the list from its
\* details.
DetailedEntry(license, details) ==
    [key |-> license.key, spdx_id |-> license.spdx_id, name |-> license.name,
     description |-> details.description]

\* Promise.allSettled in place of Promise.all: the licenses whose details
\* could not be fetched are left out and the others are kept.
PromiseAll_SkipsRejected(list, details) ==
    [rejected |-> FALSE,
     asked |-> {list[i].spdx_id : i \in 1..Len(list)},
     value |-> LET ok == SelectSeq(list, LAMBDA l : details[l.spdx_id].ok)
               IN [i \in 1..Len(ok) |-> DetailedEntry(ok[i], details[ok[i].spdx_id])]]

\* Promise.all(licensesList.map(async license => ...)): every detail fetch
\* is started; the whole is rejected when one of them is.
PromiseAll(list, details) ==
    [rejected |-> \E i \in 1..Len(list) : ~details[list[i].spdx_id].ok,
     asked |-> {list[i].spdx_id : i \in 1..Len(list)},
     value |-> [i \in 1..Len(list) |-> DetailedEntry(list[i], details[list[i].spdx_id])]]

\* The outcomes of updateLicenses that write nothing: process.exit(1) from
\* the catch block, or the early return.
UpdateEnds(status, sampled, asked) ==
    [status |-> status, wrote |-> FALSE, sampled |-> sampled, asked |-> asked,
     data |-> NoLicensesJson]

\* updateLicenses(): licensesList is the answer to /licenses, sampleDetails
\* the answer to the sample request for the first license, details the
\* answers to the per-license requests of Promise.all.
updateLicenses(file, licensesList, sampleDetails, details, clock) ==
    IF licensesList.shape = "null" THEN UpdateEnds(1, FALSE, {})
    ELSE IF licensesList.shape # "array" THEN UpdateEnds(1, FALSE, {})
    ELSE LET list == licensesList.arr
             existing == file.kind = "data"
             countChanged == existing /\ file.count # Len(list)
             existingSpdxIds == {file.licenses[i].spdx_id : i \in 1..Len(file.licenses)}
             newSpdxIds == {list[i].spdx_id : i \in 1..Len(list)}
             idsChanged == existing /\ ~countChanged /\ existingSpdxIds # newSpdxIds
             sampled == existing /\ ~countChanged /\ ~idsChanged /\ Len(list) > 0
             existingSample ==
                 file.licenses[CHOOSE i \in 1..Len(file.licenses) :
                                  /\ file.licenses[i].spdx_id = list[1].spdx_id
                                  /\ \A j \in 1..(i - 1) :
                                         file.licenses[j].spdx_id # list[1].spdx_id]
             detailsChanged ==
                 sampled /\ sampleDetails.ok
                         /\ existingSample.description # sampleDetails.description
             shouldUpdate == ~existing \/ countChanged \/ idsChanged \/ detailsChanged
             all == PromiseAll(list, details)
         IN IF sampled /\ ~sampleDetails.ok THEN UpdateEnds(1, TRUE, {})
            ELSE IF ~shouldUpdate THEN UpdateEnds(0, sampled, {})
            ELSE IF all.rejected THEN UpdateEnds(1, sampled, all.asked)
            ELSE [status |-> 0, wrote |-> TRUE, sampled |-> sampled, asked |-> all.asked,
                  data |-> [kind |-> "data", last_updated |-> clock,
                            count |-> Len(all.value), licenses |-> all.value]]

NoUpdate ==
    [op |-> "none", file |-> NoLicensesJson, licensesList |-> ListNull,
     sampleDetails |-> Rejected, details |-> <<>>, out |-> UpdateEnds(0, FALSE, {})]

\* ------------------------------------------------------------ the non-expiring variant
\* getLicense without the lookup: every call fetches.
getLicenseNonExpiring_NoLookup(licenseKey, file, fetched) ==
    IF fetched.shape = "license"
    THEN [threw |-> FALSE, ret |-> fetched, fetches |-> 1, reads |-> 1, write |-> TRUE,
          data |-> Append(OrEmpty(readCache(file)), fetched)]
    ELSE [threw |-> FALSE, ret |-> JsNull, fetches |-> 1, reads |-> 1,
          write |-> FALSE, data |-> <<>>]

\* getLicense(licenseKey, cacheFile) of the variant without expiry: the
\* cache is read once, a cached record is returned whatever its age, a
\* fetched record with a key is pushed and the array written.
getLicenseNonExpiring(licenseKey, file, fetched) ==
    LET cache == OrEmpty(readCache(file))
        cached == find(cache, licenseKey)
    IN IF cached.threw
       THEN [threw |-> TRUE, ret |-> JsNull, fetches |-> 0, reads |-> 1,
             write |-> FALSE, data |-> <<>>]
       ELSE IF cached.found
       THEN [threw |-> FALSE, ret |-> cached.value, fetches |-> 0, reads |-> 1,
             write |-> FALSE, data |-> <<>>]
       ELSE IF fetched.shape = "license"
       THEN [threw |-> FALSE, ret |-> fetched, fetches |-> 1, reads |-> 1,
             write |-> TRUE, data |-> Append(cache, fetched)]
       ELSE [threw |-> FALSE, ret |-> JsNull, fetches |-> 1, reads |-> 1,
             write |-> FALSE, data |-> <<>>]

NoGet ==
    [threw |-> FALSE, ret |-> JsNull, fetches |-> 0, reads |-> 0, write |-> FALSE,
     data |-> <<>>]

\* No call has been made to both variants; expired and mismatched tell
\* whether a call so far found the store past its ttl, or fetched a record
\* under another key than the requested one.
NoBoth ==
    [op |-> "none", key |-> "", expired |-> FALSE,
     mismatched |-> FALSE, expiring |-> NoGet, plain |-> NoGet]

\* ------------------------------------------------------------ two calls at once
\* No getLicense calls are under way.
NoRace == [before |-> AbsentFile, p |-> <<>>]

\* ------------------------------------------------------------ one run, step by step
\* No invocation is being followed.
NoProc ==
    [script |-> "none", pc |-> "idle", key |-> "", query |-> <<>>, start |-> 0,
     elapsed |-> 0, fetches |-> 0, runs |-> 0, kind |-> "none"]

\* curl started without --max-time: it never gives up by itself.
TimedOut_NoMaxTime(elapsed) == FALSE

\* curl --max-time CURL_TIMEOUT: the transfer is abandoned once it has
\* taken CURL_TIMEOUT seconds.
TimedOut(elapsed) == elapsed >= CURL_TIMEOUT

\* ------------------------------------------------------------ actions
\* One invocation of process_license.js with argument arg, during which the
\* GitHub API answers `fetched`.  writeCache replaces the file atomically
\* and fails silently.
ProcessStep(arg, author, fetched) ==
    \E r \in {run(arg, author, cacheFile, cacheMtime, now, fetched)} :
       /\ r.write => Len(r.data) <= MaxStore
       /\ IF r.write
          THEN /\ cacheFile' = writeCache(cacheFile, r.data, writable)
               /\ cacheMtime' = IF writable THEN now ELSE cacheMtime
          ELSE UNCHANGED <<cacheFile, cacheMtime>>
       /\ last' = [op |-> "process", arg |-> arg, author |-> author,
                   fetched |-> fetched,
                   file |-> cacheFile, mtime |-> cacheMtime, ats |-> writtenAt,
                   time |-> now, writable |-> writable, out |-> r]
       /\ lastView' = NoViewInvocation
       /\ UNCHANGED <<now, ticks, writable, listFile, lastList>>
       /\ UNCHANGED <<substVars, licVars, raceVars, stepVars, updateVars, twinVars>>

ProcessRun(arg, author, fetched) ==
    /\ ProcessStep(arg, author, fetched)
    /\ UNCHANGED writtenAt

\* The same invocation, with the history of write times kept.
ProcessRunLogged(arg, author, fetched) ==
    /\ ProcessStep(arg, author, fetched)
    /\ IF run(arg, author, cacheFile, cacheMtime, now, fetched).write /\ writable
       THEN writtenAt' = WrittenAtAfter(cacheFile, writtenAt, arg, now)
       ELSE UNCHANGED writtenAt

\* Another program leaves used-licenses.json with a content the workflow
\* did not write.
CorruptStore(content) ==
    /\ cacheFile' = content
    /\ cacheMtime' = now
    /\ last' = NoInvocation
    /\ UNCHANGED <<now, ticks, writtenAt, writable, listFile, lastList>>
    /\ UNCHANGED <<substVars, licVars, raceVars, stepVars, viewVars, updateVars, twinVars>>

\* The volume of the cache directory fills up or is remounted read-only, or
\* becomes writable again.
DiskFault ==
    /\ writable' = ~writable
    /\ last' = NoInvocation
    /\ UNCHANGED <<now, ticks, cacheFile, cacheMtime, writtenAt, listFile, lastList>>
    /\ UNCHANGED <<substVars, licVars, raceVars, stepVars, viewVars, updateVars, twinVars>>

\* The next step of the workflow after process_license.js has returned a
\* body: generate_text_view.js is run with that body and key_license.  It
\* reads used-licenses.json and calls neither curl nor writeToFile.
ViewRun(licenseKey) ==
    /\ last.op = "process" /\ last.out.kind = "body"
    /\ lastView' = [op |-> "view", key |-> licenseKey, file |-> cacheFile,
                    mtime |-> cacheMtime,
                    kind |-> viewRun(last.out.text, licenseKey, cacheFile)]
    /\ UNCHANGED <<now, ticks, cacheFile, cacheMtime, writtenAt, writable, last,
                   listFile, lastList>>
    /\ UNCHANGED <<substVars, licVars, raceVars, stepVars, updateVars, twinVars>>

\* One invocation of get_license_copy.js with the query, during which the
\* GitHub API answers freshLicenses.  The cache is rewritten, {licenses,
\* timestamp: currentTime}, only after a fetch that returned an array.
ListRun(query, freshLicenses) ==
    LET r == listRun(query, listFile, now, freshLicenses)
    IN /\ IF r.write /\ writable
          THEN listFile' = Envelope(freshLicenses, now)
          ELSE UNCHANGED listFile
       /\ lastList' = [op |-> "list", query |-> query, fetched |-> freshLicenses,
                       file |-> listFile, time |-> now, out |-> r]
       /\ UNCHANGED <<now, ticks, cacheFile, cacheMtime, writtenAt, writable, last>>
       /\ UNCHANGED <<substVars, licVars, raceVars, stepVars, viewVars, updateVars, twinVars>>

\* Another program leaves licenses_cache.json with a content the workflow
\* did not write.
CorruptList(content) ==
    /\ listFile' = content
    /\ lastList' = NoListInvocation
    /\ UNCHANGED <<now, ticks, cacheFile, cacheMtime, writtenAt, writable, last>>
    /\ UNCHANGED <<substVars, licVars, raceVars, stepVars, viewVars, updateVars, twinVars>>

\* One invocation of list_licenses.js, during which the GitHub API answers
\* `fetched`.  writeCache replaces the file atomically and fails silently.
LicensesRun(fetched) ==
    \E r \in {licensesRun(licensesFile, licensesMtime, now, fetched)} :
       /\ IF r.write /\ writable
          THEN /\ licensesFile' = ArrayFile(fetched.arr)
               /\ licensesMtime' = now
          ELSE UNCHANGED <<licensesFile, licensesMtime>>
       /\ lastLicenses' = [op |-> "licenses", fetched |-> fetched,
                           file |-> licensesFile, mtime |-> licensesMtime,
                           time |-> now, out |-> r]
       /\ UNCHANGED <<now, ticks, cacheFile, cacheMtime, writtenAt, writable,
                      last, listFile, lastList>>
       /\ UNCHANGED <<substVars, raceVars, stepVars, viewVars, updateVars, twinVars>>

\* ---- two getLicense calls at once
\* The launcher starts a process per query, so two runs can be under way at
\* the same time on the same used-licenses.json.  getLicense touches the
\* file three times: the lookup (isCacheFresh, readCache), the second
\* readCache after the fetch, and writeCache, which replaces the file in one
\* step (atomically: true).  Each is a step of its own here.
RaceOthers ==
    <<now, ticks, writtenAt, writable, last, listFile, lastList, substVars,
      licVars, stepVars, viewVars, updateVars, twinVars>>

\* Call i looks its key up in the store.
RaceLookup(i) ==
    /\ race.p # <<>> /\ race.p[i].pc = "lookup"
    /\ LET cached == find(OrEmpty(readCache(cacheFile)), race.p[i].key)
       IN race' = [race EXCEPT !.p[i].pc =
                       IF isCacheFresh(cacheFile, cacheMtime, now) /\ cached.found
                       THEN "done" ELSE "fetch"]
    /\ UNCHANGED <<cacheFile, cacheMtime, RaceOthers>>

\* fetchLicense of call i returns.
RaceFetch(i, fetched) ==
    /\ race.p # <<>> /\ race.p[i].pc = "fetch"
    /\ race' = [race EXCEPT !.p[i].fetched = fetched,
                            !.p[i].pc = IF fetched.shape = "license"
                                        THEN "read" ELSE "done"]
    /\ UNCHANGED <<cacheFile, cacheMtime, RaceOthers>>

\* Call i reads the store again, drops the old version of its key and adds
\* the fetched record.
RaceRead(i) ==
    /\ race.p # <<>> /\ race.p[i].pc = "read"
    /\ race' = [race EXCEPT !.p[i].cache =
                       Append(filter(OrEmpty(readCache(cacheFile)),
                                     race.p[i].key).arr,
                              race.p[i].fetched),
                            !.p[i].pc = "write"]
    /\ UNCHANGED <<cacheFile, cacheMtime, RaceOthers>>

\* writeCache of call i replaces the file.
RaceWrite(i) ==
    /\ race.p # <<>> /\ race.p[i].pc = "write"
    /\ cacheFile' = ArrayFile(race.p[i].cache)
    /\ cacheMtime' = now
    /\ race' = [race EXCEPT !.p[i].pc = "done"]
    /\ UNCHANGED RaceOthers

\* Time passes; what the last runs returned is no longer looked at.
Tick(d) ==
    /\ ticks < MaxTicks
    /\ now' = now + d
    /\ ticks' = ticks + 1
    /\ last' = NoInvocation
    /\ lastList' = NoListInvocation
    /\ UNCHANGED <<cacheFile, cacheMtime, writtenAt, writable, listFile>>
    /\ lastLicenses' = NoLicensesInvocation
    /\ lastView' = NoViewInvocation
    /\ lastUpdate' = NoUpdate
    /\ UNCHANGED <<substVars, raceVars, stepVars, licensesFile, licensesMtime>>
    /\ UNCHANGED <<licensesJson, twinVars>>

\* ---- one run, step by step
\* What a step of the followed run leaves alone.
StepOthers ==
    <<ticks, writtenAt, writable, last, lastList, substVars, licVars, raceVars,
      viewVars, updateVars, twinVars>>

\* process_license.js is started with argument arg: run returns at once
\* without a key or with a fresh store holding it, and launches curl
\* otherwise (task.launch, task.waitUntilExit).
StartProcess(arg) ==
    /\ proc.pc # "curl" /\ proc.runs < MaxRuns
    /\ LET r == run(arg, ConfiguredAuthor, cacheFile, cacheMtime, now, JsNull)
       IN proc' = IF r.fetches = 0
                  THEN [NoProc EXCEPT !.script = "process_license.js", !.key = arg,
                                      !.pc = "ended", !.start = now,
                                      !.runs = proc.runs + 1, !.kind = r.kind]
                  ELSE [NoProc EXCEPT !.script = "process_license.js", !.key = arg,
                                      !.pc = "curl", !.start = now, !.fetches = 1,
                                      !.runs = proc.runs + 1]
    /\ UNCHANGED <<now, cacheFile, cacheMtime, listFile, StepOthers>>

\* get_license_copy.js is started with the query: a fresh list is served at
\* once, curl is launched otherwise.
StartList(query) ==
    /\ proc.pc # "curl" /\ proc.runs < MaxRuns
    /\ LET r == listRun(query, listFile, now, ListNull)
       IN proc' = IF r.fetches = 0
                  THEN [NoProc EXCEPT !.script = "get_license_copy.js",
                                      !.query = query, !.pc = "ended", !.start = now,
                                      !.runs = proc.runs + 1, !.kind = r.kind]
                  ELSE [NoProc EXCEPT !.script = "get_license_copy.js",
                                      !.query = query, !.pc = "curl", !.start = now,
                                      !.fetches = 1, !.runs = proc.runs + 1]
    /\ UNCHANGED <<now, cacheFile, cacheMtime, listFile, StepOthers>>

\* A second passes while the run waits for curl to exit.
CurlSecond ==
    /\ proc.pc = "curl"
    /\ ~TimedOut(proc.elapsed) /\ proc.elapsed < MaxWait
    /\ proc' = [proc EXCEPT !.elapsed = @ + 1]
    /\ now' = now + 1
    /\ UNCHANGED <<cacheFile, cacheMtime, listFile, StepOthers>>

\* curl has exited and fetchLicense has returned `fetched`: the rest of
\* getLicense and of run, the freshness test having been made at the start.
ProcessGoesOn(fetched) ==
    \E r \in {run(proc.key, ConfiguredAuthor, cacheFile, cacheMtime, proc.start,
                  fetched)} :
       /\ r.write => Len(r.data) <= MaxStore
       /\ IF r.write
          THEN /\ cacheFile' = writeCache(cacheFile, r.data, writable)
               /\ cacheMtime' = IF writable THEN now ELSE cacheMtime
          ELSE UNCHANGED <<cacheFile, cacheMtime>>
       /\ proc' = [proc EXCEPT !.pc = "ended", !.kind = r.kind]
       /\ UNCHANGED <<now, listFile, StepOthers>>

\* curl has exited and fetchLicenses has returned freshLicenses: the rest
\* of run of get_license_copy.js, currentTime having been read at the start.
ListGoesOn(freshLicenses) ==
    \E r \in {listRun(proc.query, listFile, proc.start, freshLicenses)} :
       /\ IF r.write /\ writable
          THEN listFile' = Envelope(freshLicenses, proc.start)
          ELSE UNCHANGED listFile
       /\ proc' = [proc EXCEPT !.pc = "ended", !.kind = r.kind]
       /\ UNCHANGED <<now, cacheFile, cacheMtime, StepOthers>>

\* The server answers before the time is up.
CurlAnswersLicense(fetched) ==
    /\ proc.pc = "curl" /\ proc.script = "process_license.js"
    /\ ProcessGoesOn(fetched)

CurlAnswersList(freshLicenses) ==
    /\ proc.pc = "curl" /\ proc.script = "get_license_copy.js"
    /\ ListGoesOn(freshLicenses)

\* The time is up: curl exits with what it has received, which is nothing
\* or the beginning of a JSON text, and the fetch function returns null.
CurlTimesOut ==
    /\ proc.pc = "curl" /\ TimedOut(proc.elapsed)
    /\ IF proc.script = "process_license.js"
       THEN ProcessGoesOn(JsNull)
       ELSE ListGoesOn(ListNull)

\* The wall clock is set back by d seconds (Date.now() follows every
\* correction of the system time).
ClockSetBack(d) ==
    /\ ticks < MaxTicks
    /\ now - d >= 1
    /\ now' = now - d
    /\ ticks' = ticks + 1
    /\ last' = NoInvocation
    /\ lastList' = NoListInvocation
    /\ lastLicenses' = NoLicensesInvocation
    /\ lastView' = NoViewInvocation
    /\ UNCHANGED <<cacheFile, cacheMtime, writtenAt, writable, listFile>>
    /\ UNCHANGED <<substVars, raceVars, stepVars, licensesFile, licensesMtime>>
    /\ UNCHANGED <<updateVars, twinVars>>

\* No text is being personalized.
NoDoc ==
    [stage |-> "none", script |-> "none", license |-> JsNull,
     author |-> NoAuthor, year |-> <<>>, once |-> <<>>, twice |-> <<>>]

\* processLicense of the named script.
processLicenseOf(script, license, author, currentYear) ==
    IF script = "process_license.js"
    THEN processLicense(license, author, currentYear)
    ELSE processLicenseNonExpiring(license, author, currentYear)

\* processLicense of one of the two scripts applied to the text in hand.
PersonalizeWith(script) ==
    /\ doc.stage = "input"
    /\ doc' = [doc EXCEPT !.stage = "once", !.script = script,
                          !.once = processLicenseOf(script, doc.license,
                                                    doc.author, doc.year)]
    /\ UNCHANGED <<cacheVars, raceVars, stepVars, viewVars, updateVars, twinVars>>

Personalize == PersonalizeWith("process_license.js")

PersonalizeNonExpiring == PersonalizeWith("non-expiring")

\* The same processLicense applied to its own output, same author and year.
PersonalizeAgain ==
    /\ doc.stage = "once"
    /\ doc' = [doc EXCEPT !.stage = "twice",
                          !.twice = processLicenseOf(doc.script,
                                        [doc.license EXCEPT !.body = doc.once],
                                        doc.author, doc.year)]
    /\ UNCHANGED <<cacheVars, raceVars, stepVars, viewVars, updateVars, twinVars>>

\* One run of the updater, during which the GitHub API answers
\* licensesList, sampleDetails and details.  licenses.json is written by
\* fs.writeFileSync at the end of a run that got that far.
UpdateRun(licensesList, sampleDetails, details) ==
    \E r \in {updateLicenses(licensesJson, licensesList, sampleDetails, details, now)} :
       /\ licensesJson' = IF r.wrote THEN r.data ELSE licensesJson
       /\ lastUpdate' = [op |-> "update", file |-> licensesJson,
                         licensesList |-> licensesList,
                         sampleDetails |-> sampleDetails, details |-> details,
                         out |-> r]
       /\ UNCHANGED <<cacheVars, substVars, raceVars, stepVars, viewVars, twinVars>>

\* licenses.json is left with a content that is no JSON ('Existing licenses
\* file is corrupted, will create a new one.').
DamageLicensesJson ==
    /\ licensesJson.kind = "data"
    /\ licensesJson' = InvalidLicensesJson
    /\ lastUpdate' = NoUpdate
    /\ UNCHANGED <<cacheVars, substVars, raceVars, stepVars, viewVars, twinVars>>

\* The same getLicense call made to the expiring variant, on
\* used-licenses.json, and to the non-expiring variant, on its own copy,
\* the GitHub API answering `fetched` to whichever asks.
BothRun(licenseKey, fetched) ==
    \E e \in {getLicense(licenseKey, cacheFile, cacheMtime, now, fetched)},
       p \in {getLicenseNonExpiring(licenseKey, plainFile, fetched)} :
       /\ e.write => Len(e.data) <= MaxStore
       /\ p.write => Len(p.data) <= MaxStore
       /\ IF e.write
          THEN /\ cacheFile' = writeCache(cacheFile, e.data, writable)
               /\ cacheMtime' = IF writable THEN now ELSE cacheMtime
          ELSE UNCHANGED <<cacheFile, cacheMtime>>
       /\ plainFile' = IF p.write THEN writeCache(plainFile, p.data, writable)
                       ELSE plainFile
       /\ lastBoth' =
              [op |-> "both", key |-> licenseKey,
               expired |-> \/ lastBoth.expired
                           \/ /\ cacheFile.kind # "absent"
                              /\ now >= cacheMtime + CACHE_EXPIRY,
               mismatched |-> \/ lastBoth.mismatched
                              \/ /\ e.fetches + p.fetches > 0
                                 /\ fetched.shape = "license"
                                 /\ fetched.key # licenseKey,
               expiring |-> e, plain |-> p]
       /\ UNCHANGED <<now, ticks, writtenAt, writable, last, listFile, lastList>>
       /\ UNCHANGED <<substVars, licVars, raceVars, stepVars, viewVars, updateVars>>

\* No cache file exists, the clock reads 1.
InitCaches ==
    /\ now = 1
    /\ ticks = 0
    /\ cacheFile = AbsentFile
    /\ cacheMtime = 0
    /\ writtenAt = <<>>
    /\ writable = TRUE
    /\ last = NoInvocation
    /\ listFile = NoListFile
    /\ lastList = NoListInvocation
    /\ licensesFile = AbsentFile
    /\ licensesMtime = 0
    /\ lastLicenses = NoLicensesInvocation

Init ==
    /\ InitCaches
    /\ doc = NoDoc
    /\ race = NoRace
    /\ proc = NoProc
    /\ lastView = NoViewInvocation
    /\ licensesJson = NoLicensesJson
    /\ lastUpdate = NoUpdate
    /\ plainFile = AbsentFile
    /\ lastBoth = NoBoth

\* The steps reach both sides of the expiry boundary of the per-item cache.
Deltas == {1, CACHE_EXPIRY - 1}

FetchAnswers == Licenses \cup {NoKeyObject, JsNull}
Arguments == Keys \cup {""}

\* The per-item cache as the workflow itself drives it.
Next ==
    \/ \E arg \in Arguments, fetched \in FetchAnswers :
           ProcessRun(arg, ConfiguredAuthor, fetched)
    \/ \E d \in Deltas : Tick(d)

Spec == Init /\ [][Next]_vars

\* The per-item cache with the history of write times.
NextLogged ==
    \/ \E arg \in Arguments, fetched \in FetchAnswers :
           ProcessRunLogged(arg, ConfiguredAuthor, fetched)
    \/ \E d \in Deltas : Tick(d)

SpecLogged == Init /\ [][NextLogged]_vars

\* The per-item cache with the `author` setting changing between runs: not
\* set, or a name.
RunAuthors == {NoAuthor, ConfiguredAuthor}

NextPersonal ==
    \/ \E arg \in Keys, author \in RunAuthors, fetched \in Licenses \cup {JsNull} :
           ProcessRun(arg, author, fetched)
    \/ \E d \in Deltas : Tick(d)

SpecPersonal == Init /\ [][NextPersonal]_vars

\* The per-item cache on a volume that at times cannot be written.
NextFault ==
    \/ \E arg \in Keys, fetched \in Licenses \cup {JsNull} :
           ProcessRun(arg, ConfiguredAuthor, fetched)
    \/ \E d \in Deltas : Tick(d)
    \/ DiskFault

SpecFault == Init /\ [][NextFault]_vars

\* The per-item cache with the text view that follows a run, on a volume
\* that at times cannot be written.
NextView ==
    \/ \E arg \in Keys, fetched \in Licenses \cup {JsNull} :
           ProcessRun(arg, ConfiguredAuthor, fetched)
    \/ \E licenseKey \in Keys : ViewRun(licenseKey)
    \/ \E d \in Deltas : Tick(d)
    \/ DiskFault

SpecView == Init /\ [][NextView]_vars

\* Store contents the workflow never writes itself: not JSON, not an array,
\* or an array with an element that is no license record.
BadElements == {NoKeyObject, JsNull}
CorruptContents ==
    {InvalidJsonFile, NonArrayFile}
        \cup {ArrayFile(<<e>>) : e \in BadElements}
        \cup {ArrayFile(<<l, e>>) : l \in Licenses, e \in BadElements}
        \cup {ArrayFile(<<e, l>>) : l \in Licenses, e \in BadElements}

\* The per-item cache with a store file other programs may damage.
NextCorrupt ==
    \/ \E arg \in Arguments, fetched \in FetchAnswers :
           ProcessRun(arg, ConfiguredAuthor, fetched)
    \/ \E d \in Deltas : Tick(d)
    \/ \E content \in CorruptContents : CorruptStore(content)

SpecCorrupt == Init /\ [][NextCorrupt]_vars

\* The list cache.
ListDeltas == {1, LIST_CACHE_EXPIRY - 1}
Queries == {<<>>, <<"m">>, <<"I">>, <<"s", "c">>, <<"x">>}
ListAnswers ==
    {ListNull, ListNonArray, ListArray(<<>>), ListArray(<<MitEntry>>),
     ListArray(<<MitEntry, IscEntry>>), ListArray(<<IscEntry, MitEntry>>)}

NextList ==
    \/ \E query \in Queries, fresh \in ListAnswers : ListRun(query, fresh)
    \/ \E d \in ListDeltas : Tick(d)

SpecList == Init /\ [][NextList]_vars

\* The list cache of list_licenses.js.
NextLicenses ==
    \/ \E fresh \in ListAnswers : LicensesRun(fresh)
    \/ \E d \in Deltas : Tick(d)

SpecLicenses == Init /\ [][NextLicenses]_vars

\* Two calls at once, getLicense("mit") and getLicense("isc"), on a store
\* the workflow wrote: no file, or an array with unique keys.  A store that
\* holds one of the two keys is expired, so that both calls miss.
ApacheLicense == License("apache-2.0", ApacheText)
RaceStores ==
    {AbsentFile, ArrayFile(<<>>), ArrayFile(<<ApacheLicense>>)}
        \cup {ArrayFile(<<l>>) : l \in Licenses}
        \cup {ArrayFile(<<l, ApacheLicense>>) : l \in Licenses}
        \cup {ArrayFile(<<ApacheLicense, l>>) : l \in Licenses}
        \cup {ArrayFile(<<a, b>>) : a \in {License("mit", x) : x \in Bodies},
                                    b \in {License("isc", x) : x \in Bodies}}

RaceCall(k) == [pc |-> "lookup", key |-> k, fetched |-> JsNull, cache |-> <<>>]

InitRace ==
    /\ now = CACHE_EXPIRY + 1
    /\ ticks = 0
    /\ cacheFile \in RaceStores
    /\ cacheMtime \in {1, CACHE_EXPIRY}
    /\ cacheFile = AbsentFile => cacheMtime = 1
    /\ (\E i \in 1..Len(cacheFile.items) : cacheFile.items[i].key \in Keys)
           => cacheMtime = 1
    /\ writtenAt = <<>>
    /\ writable = TRUE
    /\ last = NoInvocation
    /\ listFile = NoListFile
    /\ lastList = NoListInvocation
    /\ licensesFile = AbsentFile
    /\ licensesMtime = 0
    /\ lastLicenses = NoLicensesInvocation
    /\ doc = NoDoc
    /\ race = [before |-> cacheFile, p |-> <<RaceCall("mit"), RaceCall("isc")>>]
    /\ proc = NoProc
    /\ lastView = NoViewInvocation
    /\ licensesJson = NoLicensesJson
    /\ lastUpdate = NoUpdate
    /\ plainFile = AbsentFile
    /\ lastBoth = NoBoth

NextRace ==
    \E i \in 1..2 :
        \/ RaceLookup(i)
        \/ \E b \in Bodies : RaceFetch(i, License(race.p[i].key, b))
        \/ RaceFetch(i, JsNull)
        \/ RaceRead(i)
        \/ RaceWrite(i)

SpecRace == InitRace /\ [][NextRace]_vars

\* Runs followed step by step, on stores the workflow wrote: fresh or
\* expired, holding the requested key or not.
StepStores ==
    {AbsentFile, ArrayFile(<<>>)} \cup {ArrayFile(<<l>>) : l \in Licenses}

StepLists ==
    {NoListFile, Envelope(ListArray(<<MitEntry, IscEntry>>), 1),
     Envelope(ListArray(<<MitEntry, IscEntry>>), CACHE_EXPIRY)}

InitSteps ==
    /\ now = CACHE_EXPIRY + 1
    /\ ticks = 0
    /\ cacheFile \in StepStores
    /\ cacheMtime \in {1, CACHE_EXPIRY}
    /\ cacheFile = AbsentFile => cacheMtime = 1
    /\ listFile \in StepLists
    /\ writtenAt = <<>>
    /\ writable = TRUE
    /\ last = NoInvocation
    /\ lastList = NoListInvocation
    /\ licensesFile = AbsentFile
    /\ licensesMtime = 0
    /\ lastLicenses = NoLicensesInvocation
    /\ doc = NoDoc
    /\ race = NoRace
    /\ proc = NoProc
    /\ lastView = NoViewInvocation
    /\ licensesJson = NoLicensesJson
    /\ lastUpdate = NoUpdate
    /\ plainFile = AbsentFile
    /\ lastBoth = NoBoth

NextSteps ==
    \/ \E arg \in Arguments : StartProcess(arg)
    \/ \E query \in {<<>>, <<"x">>} : StartList(query)
    \/ CurlSecond
    \/ \E fetched \in FetchAnswers : CurlAnswersLicense(fetched)
    \/ \E fresh \in {ListNull, ListNonArray, ListArray(<<MitEntry>>)} :
           CurlAnswersList(fresh)
    \/ CurlTimesOut

\* The operating system keeps running a started process and its clock, and
\* curl enforces --max-time; nothing obliges the server to answer or the
\* user to start a run.
SpecSteps ==
    /\ InitSteps /\ [][NextSteps]_vars
    /\ WF_vars(CurlSecond)
    /\ WF_vars(CurlTimesOut)

\* The list cache searched, with queries that match a name, a key, an SPDX
\* identifier or nothing, over lists whose entries have the key as SPDX
\* identifier or another one.
NextSearch ==
    \/ \E query \in Queries \cup {<<"n", "o", "a">>, <<"O", "T", "H">>, <<"t">>},
          fresh \in {ListNull, ListArray(<<MitEntry, IscEntry>>),
                     ListArray(<<OtherEntry, MitEntry>>)} :
           ListRun(query, fresh)
    \/ \E d \in ListDeltas : Tick(d)

SpecSearch == Init /\ [][NextSearch]_vars

\* The three caches side by side, the API answering each fetch with a
\* well-formed value, with a parsed value of another shape, or not at all.
NextShapes ==
    \/ \E fetched \in {License("mit", MitText), NoKeyObject, JsNull} :
           ProcessRun("mit", ConfiguredAuthor, fetched)
    \/ \E fresh \in {ListNull, ListNonArray, ListArray(<<MitEntry>>)} :
           \/ ListRun(<<>>, fresh)
           \/ LicensesRun(fresh)
    \/ \E d \in Deltas : Tick(d)

SpecShapes == Init /\ [][NextShapes]_vars

\* The updater run again and again while the API's list and details
\* change and requests fail.
DetailAnswers == {Rejected, Resolved("permissive"), Resolved("short and permissive")}
NextUpdate ==
    \/ \E licensesList \in {ListNull, ListNonArray, ListArray(<<>>),
                             ListArray(<<MitEntry>>), ListArray(<<MitEntry, IscEntry>>)},
          sampleDetails \in DetailAnswers,
          details \in [{MitEntry.spdx_id, IscEntry.spdx_id} -> DetailAnswers] :
           UpdateRun(licensesList, sampleDetails, details)
    \/ DamageLicensesJson
    \/ Tick(1)

SpecUpdate == Init /\ [][NextUpdate]_vars

\* The two variants of the per-item cache given the same calls and the
\* same answers.
NextTwin ==
    \/ \E licenseKey \in Keys, fetched \in FetchAnswers : BothRun(licenseKey, fetched)
    \/ \E d \in Deltas : Tick(d)

SpecTwin == Init /\ [][NextTwin]_vars

\* The list cache under a wall clock that is advanced and set back.
NextClock ==
    \/ \E query \in {<<>>, <<"x">>},
          fresh \in {ListNull, ListArray(<<MitEntry>>), ListArray(<<IscEntry, MitEntry>>)} :
           ListRun(query, fresh)
    \/ \E d \in ListDeltas : Tick(d)
    \/ \E d \in ListDeltas : ClockSetBack(d)

SpecClock == Init /\ [][NextClock]_vars

\* List cache contents that are no {timestamp, licenses} envelope.
CorruptListContents ==
    {InvalidListFile, NullListFile, ScalarListFile,
     Envelope(ListUndefined, now), Envelope(ListNonArray, now),
     Envelope(ListNonArray, 0), Envelope(ListArray(<<MitEntry>>), 0)}

\* The list cache with a cache file other programs may damage.
NextListCorrupt ==
    \/ \E query \in Queries, fresh \in ListAnswers : ListRun(query, fresh)
    \/ \E d \in ListDeltas : Tick(d)
    \/ \E content \in CorruptListContents : CorruptList(content)

SpecListCorrupt == Init /\ [][NextListCorrupt]_vars

\* Personalizing texts: every key family, an unlisted key, bodies made of up
\* to MaxSegments segments (plain text and the placeholders of all families)
\* and the bodies upstream delivers, authors with and without text the
\* patterns match.
Segments ==
    {<<"Copyright (c) ">>, NameOfAuthorToken, AngleYearToken, CopyrightOwnerToken,
     YyyyToken, FullnameToken, YearToken, SamHocevarToken, Token2004}

RECURSIVE Texts(_)
Texts(n) ==
    IF n = 0 THEN {<<>>}
    ELSE Texts(n - 1) \cup {t \o seg : t \in Texts(n - 1), seg \in Segments}

SubstBodies == Texts(MaxSegments) \cup {MitText, GplText, ApacheText, WtfplText, MplText}
SubstKeys == {"gpl-3.0", "apache-2.0", "mit", "wtfpl", "mpl-2.0", "zlib"}
Authors ==
    {NoAuthor, <<"Ada Lovelace">>, <<"ACME ", "2004">>, <<"$&", "$$">>,
     FullnameToken \o <<" Ltd">>}
Years == {<<"2026">>, <<"2004">>}

InitSubst ==
    /\ InitCaches
    /\ race = NoRace
    /\ proc = NoProc
    /\ lastView = NoViewInvocation
    /\ licensesJson = NoLicensesJson
    /\ lastUpdate = NoUpdate
    /\ plainFile = AbsentFile
    /\ lastBoth = NoBoth
    /\ doc \in {[stage |-> "input", script |-> "none", license |-> License(k, b),
                 author |-> a, year |-> y, once |-> <<>>, twice |-> <<>>] :
                    k \in SubstKeys, b \in SubstBodies, a \in Authors, y \in Years}

NextSubst ==
    \/ Personalize
    \/ PersonalizeNonExpiring
    \/ PersonalizeAgain

SpecSubst == InitSubst /\ [][NextSubst]_vars

\* ------------------------------------------------------------ observations
\* The most recent action was a run of process_license.js with a key.
ProcessReturned == last.op = "process" /\ last.arg # ""

\* Places of the license records with key k in a store file.
StoredFor(file, k) ==
    {i \in 1..Len(file.items) :
        file.items[i].shape = "license" /\ file.items[i].key = k}

\* The store was younger than the ttl when the run started.
WasFresh == last.file.kind # "absent" /\ last.time - last.mtime < CACHE_EXPIRY
WasExpired == last.file.kind # "absent" /\ last.time - last.mtime >= CACHE_EXPIRY

FetchSucceeded == last.fetched.shape = "license"
StoreUntouched == cacheFile = last.file /\ cacheMtime = last.mtime

\* ------------------------------------------------------------ claims

\* C1: if the store holds an entry for k (fresh or expired) and fetch(k)
\* fails, getLicense(k) returns that entry's payload, not an error or null.
C1_StaleFallback ==
    (ProcessReturned /\ StoredFor(last.file, last.arg) # {} /\ ~FetchSucceeded)
        => /\ last.out.kind = "body"
           /\ \E i \in StoredFor(last.file, last.arg) :
                  last.out.license = last.file.items[i]

\* C2: if the store holds an entry for k and the store's age is below the
\* ttl, getLicense(k) returns the stored payload, fetches nothing and writes
\* nothing.
C2_FastPath ==
    (ProcessReturned /\ StoredFor(last.file, last.arg) # {} /\ WasFresh)
        => /\ last.out.kind = "body"
           /\ \E i \in StoredFor(last.file, last.arg) :
                  last.out.license = last.file.items[i]
           /\ last.out.fetches = 0
           /\ ~last.out.write
           /\ StoreUntouched

\* A later run served an entry written by an earlier one, with no fetch,
\* although upstream had a different payload by then.
C2_Witness ==
    /\ ProcessReturned /\ WasFresh
    /\ last.time > last.mtime
    /\ last.out.kind = "body" /\ last.out.fetches = 0
    /\ FetchSucceeded /\ last.fetched # last.out.license
    /\ last.fetched.key = last.arg

\* C3: an entry written at time T is fetched again by any getLicense of its
\* key later than T + ttl, whatever gets of other keys happened in between.
C3_EntryExpiry ==
    (ProcessReturned /\ \E i \in StoredFor(last.file, last.arg) :
                            last.time > last.ats[i] + CACHE_EXPIRY)
        => last.out.fetches >= 1

\* C4: with no store file, getLicense(k) fetches exactly once; a successful
\* fetch creates the store with exactly the fetched entry, a failed one
\* creates no file.
C4_ColdStart ==
    (ProcessReturned /\ last.file = AbsentFile)
        => /\ last.out.fetches = 1
           /\ FetchSucceeded => cacheFile = ArrayFile(<<last.fetched>>)
           /\ ~FetchSucceeded => cacheFile = AbsentFile

C4_Witness ==
    /\ ProcessReturned /\ last.file = AbsentFile
    /\ FetchSucceeded
    /\ cacheFile = ArrayFile(<<last.fetched>>)
    /\ cacheMtime = last.time

\* The store file the run found was not an array of license records.
FoundCorruptStore ==
    \/ last.file.kind \in {"invalid", "nonarray"}
    \/ /\ last.file.kind = "array"
       /\ \E i \in 1..Len(last.file.items) : last.file.items[i].shape # "license"

\* C5: with a store file that is invalid JSON, not an array, or an array
\* with an element that is no record with a key, getLicense(k) behaves as in
\* the cold start: one fetch, nothing thrown, and on success the store is
\* rewritten to hold exactly the fetched entry.
C5_CorruptStore ==
    (ProcessReturned /\ FoundCorruptStore)
        => /\ last.out.kind # "exception"
           /\ last.out.fetches = 1
           /\ FetchSucceeded => cacheFile = ArrayFile(<<last.fetched>>)

\* The list cache file the run found was no {timestamp, licenses} envelope.
FoundMalformedList ==
    \/ lastList.file.kind \in {"invalid", "null", "scalar"}
    \/ /\ lastList.file.kind = "object"
       /\ \/ lastList.file.licenses.shape # "array"
          \/ lastList.file.timestamp = 0

\* C6: a list cache content that is no object with a licenses array and a
\* timestamp is treated as an empty cache: run fetches and returns an item
\* list, nothing is thrown.
C6_MalformedListCache ==
    (lastList.op = "list" /\ FoundMalformedList)
        => /\ lastList.out.kind \in
                  {"items", "no_licenses_found", "error_fetching_licenses"}
           /\ lastList.out.fetches = 1

\* C7: a successful getLicense(B) that writes B into a valid store leaves
\* every entry A with another key in the store, payload unchanged, whether
\* the store was fresh or expired.
C7_PartialOverwrite ==
    (ProcessReturned /\ last.file.kind = "array" /\ last.out.kind = "body"
        /\ last.out.write)
        => /\ cacheFile.kind = "array"
           /\ \A i \in 1..Len(last.file.items) :
                  last.file.items[i].key # last.arg
                      => \E j \in 1..Len(cacheFile.items) :
                             cacheFile.items[j] = last.file.items[i]

\* An expired store holding A was written with B and still holds A.
C7_Witness ==
    /\ ProcessReturned /\ WasExpired /\ last.out.write
    /\ \E i \in 1..Len(last.file.items) :
           /\ last.file.items[i].key # last.arg
           /\ \E j \in 1..Len(cacheFile.items) :
                  cacheFile.items[j] = last.file.items[i]
    /\ cacheFile.items[Len(cacheFile.items)] = last.fetched

\* C8: the persisted store never holds two entries with the same key,
\* whatever key the fetched records carry.
C8_KeysUnique ==
    \A i, j \in 1..Len(cacheFile.items) :
        cacheFile.items[i].key = cacheFile.items[j].key => i = j

C10_FetchFailure ==
    (ProcessReturned /\ StoredFor(last.file, last.arg) = {} /\ ~FetchSucceeded)
        => /\ last.out.kind = "error_failed_to_fetch"
           /\ last.out.key = last.arg
           /\ StoreUntouched

\* The failure left a store holding other keys as it was.
C10_Witness ==
    /\ ProcessReturned /\ ~FetchSucceeded
    /\ StoredFor(last.file, last.arg) = {}
    /\ last.file.kind = "array" /\ Len(last.file.items) > 0
    /\ last.out.kind = "error_failed_to_fetch"
    /\ StoreUntouched

\* What the caller of run sees: the JSON string it returns (the error
\* message or the license), or the exception.
Returned(out) == <<out.kind, out.key, out.text>>

\* C11: for a key that is not in the store and that upstream answers does
\* not exist (a JSON object without a key field), run returns a result that
\* differs from the one it returns when the fetch gets no response.
C11_NotFoundDistinct ==
    (ProcessReturned /\ StoredFor(last.file, last.arg) = {}
        /\ last.fetched = NoKeyObject)
        => Returned(last.out)
               # Returned(run(last.arg, last.author, last.file, last.mtime,
                              last.time, JsNull))

\* C12: run called without a license key (absent, empty or only whitespace)
\* returns the "No license key provided" error at once: no fetch, no
\* readCache, no cache directory or store file created, nothing written.
C12_MissingInput ==
    (last.op = "process" /\ last.arg = "")
        => /\ last.out.kind = "error_no_key"
           /\ last.out.fetches = 0
           /\ last.out.reads = 0
           /\ ~last.out.mkdir
           /\ ~last.out.write
           /\ StoreUntouched

\* A run without a key next to an existing store, and one with no store.
C12_Witness ==
    /\ last.op = "process" /\ last.arg = ""
    /\ last.out.kind = "error_no_key"
    /\ last.file.kind = "array" /\ Len(last.file.items) > 0
    /\ last.fetched.shape = "license"
    /\ cacheFile = last.file

\* C13: for every key, body, author and year, processLicense applied to the
\* output of a first application, with the same author and year, returns
\* that output unchanged.
C13_SecondPassNoOp ==
    (doc.stage = "twice" /\ doc.script = "process_license.js")
        => doc.twice = doc.once

\* The text holds the pattern somewhere.
Contains(text, pattern) ==
    \E i \in 1..(Len(text) - Len(pattern) + 1) :
        SubSeq(text, i, i + Len(pattern) - 1) = pattern

\* The places where the pattern starts in the text.
Occurrences(text, pattern) ==
    {i \in 1..(Len(text) - Len(pattern) + 1) :
        SubSeq(text, i, i + Len(pattern) - 1) = pattern}

\* The keys whose family has placeholder tokens, and the tokens.
HasTokens(key) == key \in GplFamily \cup MitFamily \cup {"apache-2.0", "wtfpl"}

AuthorTokenOf(key) ==
    CASE key \in GplFamily -> NameOfAuthorToken
      [] key = "apache-2.0" -> CopyrightOwnerToken
      [] key \in MitFamily -> FullnameToken
      [] OTHER -> SamHocevarToken

YearTokenOf(key) ==
    CASE key \in GplFamily -> AngleYearToken
      [] key = "apache-2.0" -> YyyyToken
      [] key \in MitFamily -> YearToken
      [] OTHER -> Token2004

\* processLicense has been applied to a license of a family with tokens.
Personalized == doc.stage \in {"once", "twice"} /\ HasTokens(doc.license.key)

\* An author is configured, and its value holds nothing the patterns of the
\* license's family match and no replacement pattern of replace.
PlainAuthor ==
    /\ doc.author # NoAuthor
    /\ \A i \in 1..Len(doc.author) : doc.author[i] \notin {"$&", "$$"}
    /\ ~Contains(doc.author, AuthorTokenOf(doc.license.key))
    /\ ~Contains(doc.author, YearTokenOf(doc.license.key))

RECURSIVE Substituted(_, _, _, _, _)
Substituted(text, authorToken, author, yearToken, year) ==
    IF text = <<>> THEN <<>>
    ELSE IF Len(text) >= Len(authorToken)
            /\ SubSeq(text, 1, Len(authorToken)) = authorToken
    THEN author \o Substituted(SubSeq(text, Len(authorToken) + 1, Len(text)),
                               authorToken, author, yearToken, year)
    ELSE IF Len(text) >= Len(yearToken)
            /\ SubSeq(text, 1, Len(yearToken)) = yearToken
    THEN year \o Substituted(SubSeq(text, Len(yearToken) + 1, Len(text)),
                             authorToken, author, yearToken, year)
    ELSE <<Head(text)>> \o Substituted(Tail(text), authorToken, author,
                                       yearToken, year)

\* The same reading, the year put only where 2004 stands for the second
\* time (seen: the 2004 passed so far).
RECURSIVE SubstitutedSecond(_, _, _, _)
SubstitutedSecond(text, author, year, seen) ==
    IF text = <<>> THEN <<>>
    ELSE IF Len(text) >= Len(SamHocevarToken)
            /\ SubSeq(text, 1, Len(SamHocevarToken)) = SamHocevarToken
    THEN author \o SubstitutedSecond(SubSeq(text, Len(SamHocevarToken) + 1, Len(text)),
                                     author, year, seen)
    ELSE IF Head(text) = "2004"
    THEN (IF seen = 1 THEN year ELSE <<"2004">>)
         \o SubstitutedSecond(Tail(text), author, year, seen + 1)
    ELSE <<Head(text)>> \o SubstitutedSecond(Tail(text), author, year, seen)

C16_Passthrough ==
    (doc.stage \in {"once", "twice"} /\ ~HasTokens(doc.license.key))
        => doc.once = doc.license.body

\* A body that holds placeholders of the MIT family under a key no case
\* names, a configured author: returned as it is.
C16_Witness ==
    /\ doc.stage = "once" /\ doc.script = "process_license.js"
    /\ doc.license.key = "zlib"
    /\ doc.author = <<"Ada Lovelace">>
    /\ Contains(doc.license.body, FullnameToken)
    /\ Contains(doc.license.body, YearToken)
    /\ doc.once = doc.license.body

\* C17: whatever runs with whatever authors came before, every record in
\* the persisted store is a record as fetch returned it, body not
\* personalized; and a run served from the store writes nothing.
C17_CacheNotPersonalized ==
    /\ \A i \in 1..Len(cacheFile.items) : cacheFile.items[i] \in Licenses
    /\ (ProcessReturned /\ last.out.kind = "body" /\ last.out.write)
           => /\ cacheFile.items[Len(cacheFile.items)] = last.fetched
              /\ \A i \in 1..(Len(cacheFile.items) - 1) :
                     \E j \in 1..Len(last.file.items) :
                         cacheFile.items[i] = last.file.items[j]
    /\ (ProcessReturned /\ last.out.kind = "body" /\ last.out.fetches = 0)
           => /\ ~last.out.write
              /\ StoreUntouched

\* A run returned a personalized text, different from the body it fetched
\* and stored; and a later run with no author served the stored body.
C17_Witness ==
    /\ ProcessReturned /\ last.out.kind = "body"
    /\ last.out.fetches = 0 /\ StoreUntouched
    /\ last.author = NoAuthor
    /\ last.out.text # last.out.license.body
    /\ Contains(last.out.text, FullnameToken)
    /\ ~Contains(last.out.text, YearToken)
    /\ Len(cacheFile.items) = 2
    /\ \A i \in 1..Len(cacheFile.items) : Contains(cacheFile.items[i].body, YearToken)

\* The list cache the run found held a list and a timestamp at least
\* LIST_CACHE_EXPIRY seconds old.
ListWasExpired ==
    /\ lastList.file.kind = "object"
    /\ lastList.file.licenses.shape = "array"
    /\ lastList.file.timestamp # 0
    /\ lastList.time - lastList.file.timestamp >= LIST_CACHE_EXPIRY

\* C18: when the stored list is expired and the fetch fails (no data,
\* unparsable data, or a response that is no array), run of
\* get_license_copy.js builds its items from the stored list, does not
\* return the error item, and leaves the stored timestamp and list as they
\* are.
C18_ListStaleFallback ==
    (lastList.op = "list" /\ ListWasExpired /\ lastList.fetched.shape # "array")
        => /\ lastList.out.kind \in {"items", "no_licenses_found"}
           /\ lastList.out.fetches = 1
           /\ lastList.out.licenses = lastList.file.licenses.arr
           /\ \A i \in 1..Len(lastList.out.items) :
                  \E j \in 1..Len(lastList.file.licenses.arr) :
                      /\ lastList.out.items[i].uid = lastList.file.licenses.arr[j].key
                      /\ lastList.out.items[i].title = lastList.file.licenses.arr[j].name
           /\ listFile = lastList.file

\* The fetch returned no array, the stored list was one day old or older,
\* and the run listed both stored licenses.
C18_Witness ==
    /\ lastList.op = "list" /\ ListWasExpired
    /\ lastList.fetched = ListNonArray
    /\ lastList.out.kind = "items"
    /\ Len(lastList.out.items) = 2
    /\ Len(lastList.file.licenses.arr) = 2
    /\ listFile = lastList.file

\* C19: when list-licenses.json holds a list but is expired and the fetch
\* fails, getLicenses returns the stored list, so run of list_licenses.js
\* returns the items of the stored licenses and not the 'Error fetching
\* licenses' item.
C19_LicensesStaleFallback ==
    (lastLicenses.op = "licenses"
        /\ lastLicenses.file.kind = "array" /\ Len(lastLicenses.file.items) > 0
        /\ lastLicenses.time - lastLicenses.mtime >= LICENSES_CACHE_EXPIRY
        /\ lastLicenses.fetched.shape # "array")
        => /\ lastLicenses.out.kind = "items"
           /\ lastLicenses.out.licenses = lastLicenses.file.items

\* Both calls have returned, and both had missed and fetched a record.
BothFetched ==
    /\ race.p # <<>>
    /\ \A i \in 1..2 : race.p[i].pc = "done" /\ race.p[i].fetched.shape = "license"

\* C20: when getLicense(A) and getLicense(B), A # B, both miss and both
\* fetch successfully, then however their reads and writes interleave the
\* final store is an array with unique keys, holds an entry for every key it
\* held before (the very record when the key is neither A nor B), and holds
\* the fetched record of at least one of the two calls.
C20_LastWriteWins ==
    BothFetched
        => /\ cacheFile.kind = "array"
           /\ \A i, j \in 1..Len(cacheFile.items) :
                  cacheFile.items[i].key = cacheFile.items[j].key => i = j
           /\ \A i \in 1..Len(race.before.items) :
                  \E j \in 1..Len(cacheFile.items) :
                      /\ cacheFile.items[j].key = race.before.items[i].key
                      /\ race.before.items[i].key \notin Keys
                             => cacheFile.items[j] = race.before.items[i]
           /\ \E i \in 1..2 : \E j \in 1..Len(cacheFile.items) :
                  cacheFile.items[j] = race.p[i].fetched

\* Both calls read before either wrote: the record of the first writer is
\* lost, the record the store held before is still there.
C20_Witness ==
    /\ BothFetched
    /\ race.before = ArrayFile(<<ApacheLicense>>)
    /\ Len(cacheFile.items) = 2
    /\ cacheFile.items[1] = ApacheLicense
    /\ cacheFile.items[2] = race.p[2].fetched
    /\ \A j \in 1..Len(cacheFile.items) : cacheFile.items[j].key # race.p[1].key

\* The results run can end with: the license text or the items, or one of
\* the error results.
ResultKinds ==
    {"body", "error_no_key", "error_failed_to_fetch",
     "items", "no_licenses_found", "error_fetching_licenses"}

\* No run goes on for ever, fetches twice or waits longer than the timeout.
StepsBounded ==
    /\ proc.fetches <= 1
    /\ proc.elapsed <= CURL_TIMEOUT
    /\ proc.pc = "ended" => proc.kind \in ResultKinds

\* C21: every invocation of run terminates: the one fetch it may make ends
\* within CURL_TIMEOUT seconds whether the server answers or not, it is not
\* repeated, and run then returns the license body or the item list, or an
\* error result.
C21_RunTerminates ==
    /\ []StepsBounded
    /\ (proc.pc = "curl") ~> (proc.pc = "ended")

\* A run whose server never answered: the fetch was given up after
\* CURL_TIMEOUT seconds and run returned the error result.
C21_Witness ==
    /\ proc.pc = "ended" /\ proc.fetches = 1
    /\ proc.elapsed = CURL_TIMEOUT
    /\ proc.kind \in {"error_failed_to_fetch", "error_fetching_licenses"}

\* C22: once used-licenses.json exists no run removes it, and for a valid
\* store every key present before a getLicense call is still present after
\* it, whatever key is requested and whatever the fetch answers.
C22_EntriesNeverDropped ==
    (ProcessReturned /\ last.file.kind = "array")
        => /\ cacheFile.kind = "array"
           /\ \A i \in 1..Len(last.file.items) :
                  \E j \in 1..Len(cacheFile.items) :
                      cacheFile.items[j].key = last.file.items[i].key

\* The licenses of a list whose name or SPDX ID contains the query, letter
\* case ignored, in list order.
MatchesByNameOrSpdx(licenses, query) ==
    SelectSeq(licenses,
              LAMBDA license :
                  \/ includes(toLowerCase(license.name), toLowerCase(query))
                  \/ includes(toLowerCase(license.spdx_id), toLowerCase(query)))

\* C23: for a query q the list operation returns exactly the licenses whose
\* name or SPDX ID contains q, letter case ignored, in the order of the
\* source list; the empty query returns every license.
C23_SearchByNameOrSpdx ==
    (lastList.op = "list" /\ lastList.out.kind \in {"items", "no_licenses_found"})
        => LET hits == MatchesByNameOrSpdx(lastList.out.licenses, lastList.query)
           IN /\ Len(lastList.out.items) = Len(hits)
              /\ \A i \in 1..Len(hits) :
                     /\ lastList.out.items[i].uid = hits[i].key
                     /\ lastList.out.items[i].title = hits[i].name

\* The entry at place i of the store counts as fresh now: getLicense of its
\* key would return it from the store without a fetch.
CountsAsFresh(i) ==
    LET g == getLicense(cacheFile.items[i].key, cacheFile, cacheMtime, now, JsNull)
    IN g.fetches = 0 /\ g.ret.key = cacheFile.items[i].key

\* C24: in the per-item cache freshness is decided from the one modification
\* time of the store file: at every instant every entry of the store counts
\* as fresh, when the file is younger than CACHE_EXPIRY, or every entry
\* counts as expired; never one fresh and one expired in the same store.
C24_StoreLevelFreshness ==
    \A i \in 1..Len(cacheFile.items) :
        CountsAsFresh(i) <=> now - cacheMtime < CACHE_EXPIRY

\* Two entries written more than a year apart: the older one has outlived
\* the ttl by its own age, the file has not, and both count as fresh.
C24_Witness ==
    /\ Len(cacheFile.items) = 2
    /\ Len(writtenAt) = 2
    /\ now - writtenAt[1] >= CACHE_EXPIRY
    /\ now - writtenAt[2] < CACHE_EXPIRY
    /\ CountsAsFresh(1) /\ CountsAsFresh(2)

\* C25, per-item cache: the store is written only with a fetched record
\* that has a key; any other parsed response ends as a failed fetch does,
\* is not written and is not returned.
WellFormedLicenseOnly ==
    ProcessReturned
        => /\ last.out.write
                  => /\ last.fetched.shape = "license"
                     /\ cacheFile.items[Len(cacheFile.items)] = last.fetched
           /\ last.fetched.shape # "license"
                  => /\ last.out = run(last.arg, last.author, last.file, last.mtime,
                                       last.time, JsNull)
                     /\ StoreUntouched
           /\ last.out.kind = "body"
                  => /\ last.out.license.shape = "license"
                     /\ last.out.fetches = 1 => last.out.license = last.fetched

\* C25, list cache of get_license_copy.js: written only with a fetched
\* array; another parsed response ends as a failed fetch does.
WellFormedListOnly ==
    lastList.op = "list"
        => /\ lastList.out.write
                  => /\ lastList.fetched.shape = "array"
                     /\ listFile = Envelope(lastList.fetched, lastList.time)
           /\ lastList.fetched.shape # "array"
                  => /\ lastList.out = listRun(lastList.query, lastList.file,
                                               lastList.time, ListNull)
                     /\ listFile = lastList.file

\* C25, list cache of list_licenses.js: the same.
WellFormedLicensesOnly ==
    lastLicenses.op = "licenses"
        => /\ lastLicenses.out.write
                  => /\ lastLicenses.fetched.shape = "array"
                     /\ licensesFile = ArrayFile(lastLicenses.fetched.arr)
           /\ lastLicenses.fetched.shape # "array"
                  => /\ lastLicenses.out
                            = licensesRun(lastLicenses.file, lastLicenses.mtime,
                                          lastLicenses.time, ListNull)
                     /\ lastLicenses.out.fetches = 1
                            => lastLicenses.out.kind = "error_fetching_licenses"
                     /\ licensesFile = lastLicenses.file
                     /\ licensesMtime = lastLicenses.mtime

\* C25: only well-formed fetch results are persisted or returned: the
\* per-item store is written only with a fetched record that has a key
\* field, the list stores only with a fetched JSON array; a parsed response
\* of another shape is treated as a fetch failure, never written to a store
\* and never returned as a payload; so the stores hold nothing else.
C25_OnlyWellFormedPersisted ==
    /\ WellFormedLicenseOnly
    /\ WellFormedListOnly
    /\ WellFormedLicensesOnly
    /\ \A i \in 1..Len(cacheFile.items) : cacheFile.items[i].shape = "license"
    /\ listFile.kind \in {"absent", "object"}
    /\ listFile.kind = "object" => listFile.licenses.shape = "array"
    /\ licensesFile.kind \in {"absent", "array"}

\* The API answered each of the three scripts with an error object: each
\* returned its error result and the stores written before are as they were.
C25_Witness ==
    /\ ProcessReturned /\ last.fetched = NoKeyObject
    /\ last.out.kind = "error_failed_to_fetch"
    /\ last.file.kind = "array" /\ cacheFile = last.file
    /\ lastList.op = "list" /\ lastList.fetched = ListNonArray
    /\ lastList.file.kind = "object" /\ listFile = lastList.file
    /\ lastLicenses.op = "licenses" /\ lastLicenses.fetched = ListNonArray
    /\ lastLicenses.out.kind = "error_fetching_licenses"
    /\ lastLicenses.file.kind = "array" /\ licensesFile = lastLicenses.file

\* C26: when writing the store fails after a successful fetch, getLicense
\* still returns the fetched record, run returns its body and no error, and
\* the store file is left with the content and the mtime it had.
C26_SilentWriteFailure ==
    (ProcessReturned /\ ~last.writable /\ last.out.fetches = 1 /\ FetchSucceeded)
        => /\ last.out.kind = "body"
           /\ last.out.license = last.fetched
           /\ last.out.write
           /\ StoreUntouched

\* A store holding a record of the requested key, expired; the refetched
\* record could not be written: it was returned, and the store still holds
\* the old one.
C26_Witness ==
    /\ ProcessReturned /\ ~last.writable /\ FetchSucceeded
    /\ last.out.kind = "body" /\ last.out.license = last.fetched
    /\ last.out.write
    /\ WasExpired
    /\ \E i \in StoredFor(last.file, last.arg) : last.file.items[i] # last.fetched
    /\ cacheFile = last.file /\ cacheMtime = last.mtime

\* The text view ran right after a run of process_license.js that returned
\* a body for the key.
ViewedAfterProcess ==
    /\ lastView.op = "view"
    /\ ProcessReturned /\ last.out.kind = "body"
    /\ lastView.key = last.arg

\* C27: after run(k) of process_license.js has returned a license body for
\* k, the text view run next with key_license = k finds the license in the
\* store and does not return the 'not found in cache' error; and the text
\* view leaves the store as it found it.
C27_ProcessThenView ==
    ViewedAfterProcess
        => /\ lastView.kind = "markdown"
           /\ cacheFile = lastView.file /\ cacheMtime = lastView.mtime

\* The run found a stored list: an envelope with a licenses array and a
\* timestamp.
FoundStoredList ==
    /\ lastList.op = "list"
    /\ lastList.file.kind = "object"
    /\ lastList.file.licenses.shape = "array"
    /\ lastList.file.timestamp # 0

\* C28 as stated: the stored list is served without a fetch only when its
\* age now - timestamp lies in 0 <= age < 86400; a list exactly 86400 seconds
\* old, or one whose timestamp is later than the current time, is fetched.
C28_FreshnessWindow ==
    FoundStoredList
        => (lastList.out.fetches = 0
               <=> /\ 0 <= lastList.time - lastList.file.timestamp
                   /\ lastList.time - lastList.file.timestamp < LIST_CACHE_EXPIRY)

\* C28 amended: the stored list is served without a fetch exactly when
\* now - timestamp < 86400; a list exactly 86400 seconds old is fetched, a
\* list whose timestamp is later than the current time is served.
C28_FreshnessUpperBoundOnly ==
    FoundStoredList
        => /\ lastList.out.fetches = 0
                  <=> lastList.time - lastList.file.timestamp < LIST_CACHE_EXPIRY
           /\ lastList.out.fetches = 0
                  => /\ lastList.out.licenses = lastList.file.licenses.arr
                     /\ listFile = lastList.file

\* The clock was set back after the list was stored: the timestamp lies in
\* the future and the list is served, the API having another list by now.
C28_Witness ==
    /\ FoundStoredList
    /\ lastList.time < lastList.file.timestamp
    /\ lastList.out.fetches = 0
    /\ lastList.out.kind = "items"
    /\ lastList.fetched.shape = "array"
    /\ lastList.fetched # lastList.file.licenses
    /\ listFile = lastList.file

\* A request made by the last run of updateLicenses was rejected: the
\* list request, the sample request or one of the detail requests.
SomeFetchFailed ==
    \/ lastUpdate.licensesList.shape = "null"
    \/ lastUpdate.out.sampled /\ ~lastUpdate.sampleDetails.ok
    \/ \E id \in lastUpdate.out.asked : ~lastUpdate.details[id].ok

\* C29: updateLicenses writes licenses.json only after the list fetch and
\* every per-license detail fetch have succeeded, and then with count equal
\* to the number of licenses written; if any fetch fails the existing file
\* is left unchanged and the process ends with a failure status.
C29_AllOrNothingUpdate ==
    lastUpdate.op = "update"
        => /\ (lastUpdate.out.wrote \/ licensesJson # lastUpdate.file)
                  => /\ lastUpdate.licensesList.shape = "array"
                     /\ \A i \in 1..Len(lastUpdate.licensesList.arr) :
                            lastUpdate.details[lastUpdate.licensesList.arr[i].spdx_id].ok
                     /\ licensesJson.kind = "data"
                     /\ licensesJson.count = Len(licensesJson.licenses)
                     /\ Len(licensesJson.licenses) = Len(lastUpdate.licensesList.arr)
                     /\ lastUpdate.out.status = 0
           /\ SomeFetchFailed
                  => /\ licensesJson = lastUpdate.file
                     /\ lastUpdate.out.status = 1

\* A database exists, the list has grown to two licenses, and the details
\* of the second cannot be fetched while those of the first can.
C29_Witness ==
    /\ lastUpdate.op = "update"
    /\ lastUpdate.file.kind = "data"
    /\ lastUpdate.file.count = 1
    /\ lastUpdate.licensesList = ListArray(<<MitEntry, IscEntry>>)
    /\ lastUpdate.details[MitEntry.spdx_id].ok
    /\ ~lastUpdate.details[IscEntry.spdx_id].ok
    /\ lastUpdate.out.asked = {MitEntry.spdx_id, IscEntry.spdx_id}
    /\ lastUpdate.out.status = 1
    /\ licensesJson = lastUpdate.file

\* The set of entries a store file holds.
Entries(file) == {file.items[i] : i \in 1..Len(file.items)}

\* C30: over a sequence of getLicense calls during which the store never
\* reaches its ttl and every fetched record has the requested key, the
\* expiring and the non-expiring getLicense return the same results,
\* perform the same fetches and leave the same set of store entries.
C30_VariantsAgree ==
    (lastBoth.op = "both" /\ ~lastBoth.expired /\ ~lastBoth.mismatched)
        => /\ lastBoth.expiring.threw = lastBoth.plain.threw
           /\ lastBoth.expiring.ret = lastBoth.plain.ret
           /\ lastBoth.expiring.fetches = lastBoth.plain.fetches
           /\ Entries(cacheFile) = Entries(plainFile)

\* Two licenses were fetched and stored, and the last call is answered by
\* both variants from their stores.
C30_Witness ==
    /\ lastBoth.op = "both"
    /\ ~lastBoth.expired
    /\ ~lastBoth.mismatched
    /\ lastBoth.expiring.fetches = 0
    /\ lastBoth.plain.fetches = 0
    /\ lastBoth.expiring.ret.shape = "license"
    /\ Len(cacheFile.items) = 2
    /\ Len(plainFile.items) = 2
    /\ now > 1

====
